---------------------------- MODULE Spec2Model ----------------------------
(***************************************************************************)
(* A model of the VeritasAI backend (mrkingsleyobi/veritas-ai): the        *)
(* heuristic scoring engines, the in-process model registry, the           *)
(* third-party verification service, the cache service, the WebSocket      *)
(* connection registry, the streaming processor and the HTTP routes.        *)
(*                                                                         *)
(* Each component has its own specification (its own Init and Next) over   *)
(* the shared variables; the variables of the other components stay at     *)
(* their idle values.                                                      *)
(*                                                                         *)
(* Scores are Python floats in the source.  They are modelled as integers  *)
(* in units of 1/3000 (ScoreOne is 1.0), the coarsest unit in which every  *)
(* literal and every per-match delta of the engines is a whole number.     *)
(* Float arithmetic rounds: the handlers that compute take a rounding      *)
(* error drawn from FloatErr, so the model over-approximates the values    *)
(* the build can produce.                                                  *)
(***************************************************************************)
EXTENDS Integers, Sequences, FiniteSets, TLC

VARIABLES
    vreq,               \* verification engine: the request (content features)
    vres,               \* verification engine: the result of verify_content
    dreq,               \* deepfake engine: the request
    dres,               \* deepfake engine: the result of detect_deepfake
    models,             \* ModelManager.models: type -> version -> model
    active_models,      \* ModelManager.active_models: type -> version
    model_performance,  \* ModelManager.model_performance: type -> records
    registered,         \* history: the model last registered per (type, version)
    activated,          \* history: the version last made active per type
    appended,           \* history: every record ever tracked, per type
    clock,              \* the number of records tracked so far (their timestamps)
    manager_last,       \* history: the predict or train_model call made last, if any
    tp_enabled,         \* third-party service: the services with an API key
    tp_http,            \* third-party service: what each HTTP call did
    tp_result,          \* third-party service: what verify_text_claim returned
    redis_store,        \* Redis: key -> the stored string and its time to live
    redis_up,           \* Redis: whether the server can be reached
    cache_hist,         \* history: the last cache operation on each cache slot
    active_connections, \* connection manager: user id -> set of websockets
    user_subscriptions, \* connection manager: user id -> set of topics
    ws_conn,            \* each websocket: how far its endpoint handler has come
    ws_call,            \* the send_personal_message call in progress, or None
    ws_last,            \* history: the last call made to the connection manager itself
    processors,         \* streaming processor: the registered content types
    active_streams,     \* streaming processor: stream id -> stream information
    stream_last,        \* history: the last streaming processor call that returned
    completions,        \* history: stream id -> processor runs completed since its start
    content_table,      \* database: content id -> Content row
    next_content_id,    \* database: the id the next Content row gets
    api_last,           \* history: the last request to a content route and its response
    stream_response,    \* the response of the last request to a streaming route
    stream_calls,       \* each interleaved streaming call: how far it has come
    stream_updates,     \* history: the updates handed to the websocket manager
    users,              \* database: the User rows, in the order of their ids
    register_calls      \* each register request: how far register_user has come

engineVars == <<vreq, vres>>
deepfakeVars == <<dreq, dres>>
managerVars ==
    <<models, active_models, model_performance, registered, activated,
      appended, clock, manager_last>>
thirdPartyVars == <<tp_enabled, tp_http, tp_result>>
cacheVars == <<redis_store, redis_up, cache_hist>>
wsVars == <<active_connections, user_subscriptions, ws_conn, ws_call, ws_last>>
streamCallVars == <<stream_calls, stream_updates>>
streamVars ==
    <<processors, active_streams, stream_last, completions, stream_response,
      stream_calls, stream_updates>>
apiVars == <<content_table, next_content_id, api_last>>
authVars == <<users, register_calls>>
vars == <<vreq, vres, dreq, dres, models, active_models, model_performance,
          registered, activated, appended, clock, manager_last, tp_enabled,
          tp_http,
          tp_result, redis_store, redis_up, cache_hist, active_connections,
          user_subscriptions, ws_conn, ws_call, ws_last, processors,
          active_streams, stream_last, completions, content_table,
          next_content_id, api_last, stream_response, stream_calls,
          stream_updates, users, register_calls>>

\* Python's None, where a record (a request, a result) is expected
None == [none |-> TRUE]

Min(a, b) == IF a <= b THEN a ELSE b
Max(a, b) == IF a >= b THEN a ELSE b

\* 1.0 in score units.
ScoreOne == 3 * 1000
\* n hundredths in score units (0.85 is Hundredths(85)).
Hundredths(n) == n * 30
\* the rounding error of a float computation, in score units
FloatErr == {-1, 0, 1}

(***************************************************************************)
(* ContentVerificationEngine (src/ai/verification/engine.py)               *)
(***************************************************************************)
\* bounds on the number of regex matches in a content
MaxTextMatches == 6
MaxHtmlMatches == 4

supported_content_types ==
    {"text/plain", "text/html", "image/jpeg", "image/png", "video/mp4",
     "application/json"}
\* one unsupported type stands for every MIME type outside the table
ContentTypes == supported_content_types \cup {"application/pdf"}

\* (label, score_impact) of the four text patterns, in list order
misinformation_patterns ==
    << [label |-> "sensational_language", impact |-> Hundredths(30)],
       [label |-> "uncertain_claims",     impact |-> Hundredths(20)],
       [label |-> "vague_authority",      impact |-> Hundredths(25)],
       [label |-> "absolute_claims",      impact |-> Hundredths(35)] >>
\* (label, score_impact) of the four HTML patterns, in list order
suspicious_patterns ==
    << [label |-> "embedded_scripts",      impact |-> Hundredths(20)],
       [label |-> "inline_event_handlers", impact |-> Hundredths(15)],
       [label |-> "embedded_iframes",      impact |-> Hundredths(25)],
       [label |-> "auto_refresh",          impact |-> Hundredths(30)] >>

\* A content is abstracted to what the handlers read of it: the number of
\* matches of each pattern (re.findall), the word-count class, whether an
\* HTML page has more than ten comments, and the shape of a JSON document.
TextContents ==
    [kind : {"text"},
     matches : [1..4 -> 0..MaxTextMatches],
     words : {"lt50", "mid", "gt10000"}]
HtmlContents ==
    [kind : {"html"},
     matches : [1..4 -> 0..MaxHtmlMatches],
     many_comments : BOOLEAN]
JsonContents ==
    [kind : {"json"}, shape : {"invalid", "other"},
     source : {FALSE}, time : {FALSE}]
    \cup [kind : {"json"}, shape : {"dict"}, source : BOOLEAN, time : BOOLEAN]
OpaqueContents == [kind : {"bytes"}]

ContentsOf(content_type) ==
    CASE content_type = "text/plain" -> TextContents
      [] content_type = "text/html" -> HtmlContents
      [] content_type = "application/json" -> JsonContents
      [] OTHER -> OpaqueContents

VerifyRequests ==
    UNION {[content_type : {ct}, content : ContentsOf(ct)] : ct \in ContentTypes}

\* max(0.0, min(1.0, score))
ClampUnchecked(score) == score
Clamp(score) == Max(0, Min(ScoreOne, score))

\* score_impact * min(len(matches), cap) / cap, summed over the patterns
\* that matched
RECURSIVE PatternPenalty(_, _, _, _)
PatternPenalty(patterns, matches, cap, i) ==
    IF i > Len(patterns) THEN 0
    ELSE (IF matches[i] > 0
          THEN (patterns[i].impact * Min(matches[i], cap)) \div cap
          ELSE 0)
         + PatternPenalty(patterns, matches, cap, i + 1)

AnyMatch(matches) == \E i \in DOMAIN matches : matches[i] > 0

verify_text_content(content, err) ==
    LET penalty == PatternPenalty(misinformation_patterns, content.matches, 5, 1)
        raw == Hundredths(85) - penalty
                 + (IF AnyMatch(content.matches) THEN err ELSE 0)
        confidence == IF content.words = "lt50" THEN Hundredths(50)
                      ELSE Hundredths(90)
    IN  [verification_score |-> Clamp(raw),
         confidence |-> Max(Hundredths(10), confidence)]

verify_html_content(content, err) ==
    LET penalty == PatternPenalty(suspicious_patterns, content.matches, 3, 1)
        comments == IF content.many_comments THEN Hundredths(10) ELSE 0
        computed == AnyMatch(content.matches) \/ content.many_comments
        raw == Hundredths(80) - penalty - comments
                 + (IF computed THEN err ELSE 0)
    IN  [verification_score |-> Clamp(raw),
         confidence |-> Hundredths(85)]

verify_image_content(content) ==
    [verification_score |-> Hundredths(75), confidence |-> Hundredths(80)]

verify_video_content(content) ==
    [verification_score |-> Hundredths(70), confidence |-> Hundredths(75)]

verify_json_content(content, err) ==
    IF content.shape = "invalid"
    THEN [verification_score |-> Clamp(Hundredths(10)),
          confidence |-> Hundredths(30)]
    ELSE LET bonus == (IF content.shape = "dict" /\ content.source
                       THEN Hundredths(10) ELSE 0)
                      + (IF content.shape = "dict" /\ content.time
                         THEN Hundredths(5) ELSE 0)
             raw == Hundredths(90) + bonus + (IF bonus > 0 THEN err ELSE 0)
         IN  [verification_score |-> Clamp(raw),
              confidence |-> Hundredths(95)]

generate_assessment_shifted(score) ==
    IF score >= Hundredths(90) THEN "Highly Authentic"
    ELSE IF score >= Hundredths(70) THEN "Likely Authentic"
    ELSE IF score > Hundredths(50) THEN "Uncertain"
    ELSE IF score >= Hundredths(30) THEN "Likely Misinformation"
    ELSE "Highly Suspect"
generate_assessment(score) ==
    IF score >= Hundredths(90) THEN "Highly Authentic"
    ELSE IF score >= Hundredths(70) THEN "Likely Authentic"
    ELSE IF score >= Hundredths(50) THEN "Uncertain"
    ELSE IF score >= Hundredths(30) THEN "Likely Misinformation"
    ELSE "Highly Suspect"

\* The result of verify_content: the fields the handlers compute.  The
\* findings, metadata_analysis and third_party_verification entries are
\* not modelled: nothing reads them back into the score or the assessment.
verify_content(req, err) ==
    LET ct == req.content_type
        method_result ==
            CASE ct = "text/plain" -> verify_text_content(req.content, err)
              [] ct = "text/html" -> verify_html_content(req.content, err)
              [] ct \in {"image/jpeg", "image/png"} ->
                     verify_image_content(req.content)
              [] ct = "video/mp4" -> verify_video_content(req.content)
              [] ct = "application/json" ->
                     verify_json_content(req.content, err)
              [] OTHER -> [verification_score |-> Hundredths(10),
                           confidence |-> Hundredths(10)]
    IN  [content_type |-> ct,
         verification_score |-> method_result.verification_score,
         confidence |-> method_result.confidence,
         assessment |-> generate_assessment(method_result.verification_score)]

EngineIdle == vreq = None /\ vres = None

VerifyContent ==
    /\ vreq # None
    /\ vres = None
    /\ \E err \in FloatErr : vres' = verify_content(vreq, err)
    /\ UNCHANGED <<vreq, deepfakeVars, managerVars, thirdPartyVars, cacheVars, wsVars, streamVars, apiVars,
                   authVars>>

(***************************************************************************)
(* DeepfakeDetectionEngine (src/ai/deepfake/detection.py)                  *)
(***************************************************************************)
\* a metadata key that is not in the dictionary
Absent == 0 - 1

\* the values of 'width' and 'height' around the 4000 threshold
Dimensions == {Absent, 1920, 4000, 4001}
\* the values of 'duration' around the 300 s threshold
Durations == {Absent, 300, 301}
\* the values of 'bitrate' around the 10 Mbps threshold
Bitrates == {Absent, 10000000, 10000001}
\* EXIF 'Software' values: not in the dictionary, an editor, an AI tool
Softwares == {"absent", "Adobe Photoshop", "Midjourney v5"}
ai_tools_software == {"Midjourney v5"}

\* metadata['exif']: which camera fields it holds and whether it holds any
\* of DateTime, DateTimeOriginal, DateTimeDigitized
ExifData ==
    [Make : BOOLEAN, Model : BOOLEAN, Software : Softwares, DateTime : BOOLEAN]
ImageMetadata ==
    [exif : ExifData \cup {None}, width : Dimensions, height : Dimensions]
VideoMetadata == [duration : Durations, bitrate : Bitrates]

DeepfakeRequests ==
    [content_type : {"image"}, metadata : ImageMetadata]
    \cup [content_type : {"video"}, metadata : VideoMetadata]
    \cup [content_type : {"audio"}, metadata : {None}]

Indicator(type, confidence) == [type |-> type, confidence |-> confidence]

\* sum(ind.get('confidence', 0) for ind in indicators)
RECURSIVE SumConfidence(_)
SumConfidence(indicators) ==
    IF indicators = <<>> THEN 0
    ELSE Head(indicators).confidence + SumConfidence(Tail(indicators))

\* sum(max(0, ind.get('confidence', 0)) for ind in indicators)
RECURSIVE SumPositiveConfidence(_)
SumPositiveConfidence(indicators) ==
    IF indicators = <<>> THEN 0
    ELSE Max(0, Head(indicators).confidence)
         + SumPositiveConfidence(Tail(indicators))

analyze_exif_consistency(exif_data) ==
    LET camera ==
            IF ~exif_data.Make /\ ~exif_data.Model
               /\ exif_data.Software = "absent"
            THEN <<Indicator("missing_camera_data", Hundredths(40))>>
            ELSE IF exif_data.Software # "absent"
                    /\ exif_data.Software \in ai_tools_software
            THEN <<Indicator("ai_generation_tool", Hundredths(80))>>
            ELSE <<>>
        timestamps ==
            IF ~exif_data.DateTime
            THEN <<Indicator("missing_timestamps", Hundredths(30))>>
            ELSE <<>>
    IN  camera \o timestamps

\* An empty metadata dictionary is falsy: the image request whose keys are
\* all absent takes the "no metadata" path, with the same result.
detect_image_deepfake_uncapped(metadata, err) ==
    LET exif_issues == IF metadata.exif # None
                       THEN analyze_exif_consistency(metadata.exif)
                       ELSE <<>>
        resolution ==
            IF metadata.width # Absent /\ metadata.height # Absent
               /\ (metadata.width > 4000 \/ metadata.height > 4000)
            THEN <<Indicator("high_resolution", Hundredths(30))>>
            ELSE <<>>
        indicators_found == exif_issues \o resolution
        indicator_impact == SumConfidence(indicators_found)
    IN  [deepfake_probability |->
             Hundredths(30) + indicator_impact
               + (IF indicators_found # <<>> THEN err ELSE 0),
         confidence |->
             Min(Hundredths(90),
                 Hundredths(50) + Len(indicators_found) * Hundredths(10)),
         indicators |-> indicators_found]
detect_image_deepfake(metadata, err) ==
    LET exif_issues == IF metadata.exif # None
                       THEN analyze_exif_consistency(metadata.exif)
                       ELSE <<>>
        resolution ==
            IF metadata.width # Absent /\ metadata.height # Absent
               /\ (metadata.width > 4000 \/ metadata.height > 4000)
            THEN <<Indicator("high_resolution", Hundredths(30))>>
            ELSE <<>>
        indicators_found == exif_issues \o resolution
        indicator_impact == SumConfidence(indicators_found)
    IN  [deepfake_probability |->
             Min(Hundredths(95),
                 Hundredths(30) + indicator_impact
                   + (IF indicators_found # <<>> THEN err ELSE 0)),
         confidence |->
             Min(Hundredths(90),
                 Hundredths(50) + Len(indicators_found) * Hundredths(10)),
         indicators |-> indicators_found]

detect_video_deepfake(metadata, err) ==
    LET long_duration ==
            IF metadata.duration # Absent /\ metadata.duration > 300
            THEN <<Indicator("long_duration", Hundredths(10))>>
            ELSE <<>>
        high_bitrate ==
            IF metadata.bitrate # Absent /\ metadata.bitrate > 10000000
            THEN <<Indicator("high_bitrate", 0 - Hundredths(10))>>
            ELSE <<>>
        indicators_found == long_duration \o high_bitrate
        indicator_impact == SumPositiveConfidence(indicators_found)
    IN  [deepfake_probability |->
             Min(Hundredths(95),
                 Max(Hundredths(5),
                     Hundredths(40) + indicator_impact
                       + (IF indicator_impact # 0 THEN err ELSE 0))),
         confidence |-> Hundredths(70),
         indicators |-> indicators_found]

deepfake_assessment(probability) ==
    IF probability < Hundredths(20) THEN "Likely Authentic"
    ELSE IF probability < Hundredths(50) THEN "Possibly Authentic"
    ELSE IF probability < Hundredths(80) THEN "Suspicious"
    ELSE "Likely Deepfake"

detect_deepfake(req, err) ==
    LET detection_result ==
            CASE req.content_type = "image" ->
                     detect_image_deepfake(req.metadata, err)
              [] req.content_type = "video" ->
                     detect_video_deepfake(req.metadata, err)
              [] OTHER ->
                     [deepfake_probability |-> Hundredths(10),
                      confidence |-> Hundredths(20),
                      indicators |-> <<Indicator("unsupported_format", 0)>>]
    IN  [content_type |-> req.content_type,
         deepfake_probability |-> detection_result.deepfake_probability,
         confidence |-> detection_result.confidence,
         indicators |-> detection_result.indicators,
         assessment |-> deepfake_assessment(detection_result.deepfake_probability)]

DeepfakeIdle == dreq = None /\ dres = None

DetectDeepfake ==
    /\ dreq # None
    /\ dres = None
    /\ \E err \in FloatErr : dres' = detect_deepfake(dreq, err)
    /\ UNCHANGED <<dreq, engineVars, managerVars, thirdPartyVars, cacheVars, wsVars, streamVars, apiVars,
                   authVars>>

(***************************************************************************)
(* ModelManager (src/ai/ml/manager.py)                                     *)
(***************************************************************************)
\* Python's None, where a string (a version, a model) is expected
NoneStr == "None"

\* a Python dictionary is a function on the set of its keys
EmptyDict == <<>>
DictPut(dict, key, value) ==
    [k \in DOMAIN dict \cup {key} |-> IF k = key THEN value ELSE dict[k]]

ModelTypes == {"text_analysis", "image_analysis"}
Versions == {"1.0.0", "2.0.0"}
\* a version string that is falsy in Python
EmptyVersion == ""
\* the model instances (MLModel objects, all truthy)
ModelObjs == {"text_model", "image_model"}

\* "Keep only last 1000 records per model type"
LogCap == 1000
\* the number of records a behaviour tracks after its initial state
MaxTracked == 2
\* the same, for the behaviours that start from a nearly full log
MaxTrackedLog == 3

\* the last n elements of a list: list[-n:]
LastN(list, n) ==
    IF Len(list) <= n THEN list ELSE SubSeq(list, Len(list) - n + 1, Len(list))
FirstN(list, n) ==
    IF Len(list) <= n THEN list ELSE SubSeq(list, 1, n)

\* register_model: always returns True
register_model_keep_first(model_type, model_version, model) ==
    LET versions == IF model_type \in DOMAIN models
                    THEN models[model_type] ELSE EmptyDict
    IN  IF model_version \in DOMAIN versions THEN models
        ELSE DictPut(models, model_type,
                     DictPut(versions, model_version, model))
register_model(model_type, model_version, model) ==
    LET versions == IF model_type \in DOMAIN models
                    THEN models[model_type] ELSE EmptyDict
    IN  DictPut(models, model_type, DictPut(versions, model_version, model))

\* the return value of set_active_model
set_active_model_unchecked(model_type, model_version) == TRUE
set_active_model_any_version(model_type, model_version) ==
    model_type \in DOMAIN models
set_active_model(model_type, model_version) ==
    /\ model_type \in DOMAIN models
    /\ model_version \in DOMAIN models[model_type]

\* the return value of get_model; model_version NoneStr asks for the
\* active version
get_model_needs_active(model_type, model_version) ==
    IF model_type \notin DOMAIN models THEN NoneStr
    ELSE IF model_type \notin DOMAIN active_models THEN NoneStr
    ELSE LET version == IF model_version = NoneStr
                        THEN active_models[model_type] ELSE model_version
         IN  IF version \notin DOMAIN models[model_type] THEN NoneStr
             ELSE models[model_type][version]
get_model(model_type, model_version) ==
    IF model_type \notin DOMAIN models THEN NoneStr
    ELSE IF model_version = NoneStr /\ model_type \notin DOMAIN active_models
    THEN NoneStr
    ELSE LET version == IF model_version = NoneStr
                        THEN active_models[model_type] ELSE model_version
         IN  IF version \notin DOMAIN models[model_type] THEN NoneStr
             ELSE models[model_type][version]

get_active_model(model_type) == get_model(model_type, NoneStr)

\* model_version or self.active_models.get(model_type, "unknown")
TrackedVersion(model_type, model_version) ==
    IF model_version \notin {NoneStr, EmptyVersion} THEN model_version
    ELSE IF model_type \in DOMAIN active_models THEN active_models[model_type]
    ELSE "unknown"

PerformanceRecord(model_version, type, timestamp) ==
    [model_version |-> model_version, type |-> type, timestamp |-> timestamp]

\* _track_prediction / _track_training: the new model_performance
track_keep_oldest(model_type, record) ==
    LET log == IF model_type \in DOMAIN model_performance
               THEN model_performance[model_type] ELSE <<>>
        grown == Append(log, record)
    IN  DictPut(model_performance, model_type,
                IF Len(grown) > LogCap THEN FirstN(grown, LogCap) ELSE grown)
track(model_type, record) ==
    LET log == IF model_type \in DOMAIN model_performance
               THEN model_performance[model_type] ELSE <<>>
        grown == Append(log, record)
    IN  DictPut(model_performance, model_type,
                IF Len(grown) > LogCap THEN LastN(grown, LogCap) ELSE grown)

\* len([r for r in records if r["type"] == type])
CountType(records, type) ==
    Cardinality({i \in DOMAIN records : records[i].type = type})

\* get_performance_stats(model_type): the totals, or None for the error
\* dictionary of a type without a log
get_performance_stats_any_type(model_type) ==
    IF model_type \notin DOMAIN model_performance THEN None
    ELSE [total_predictions |-> Len(model_performance[model_type]),
          total_trainings |-> Len(model_performance[model_type])]
get_performance_stats(model_type) ==
    IF model_type \notin DOMAIN model_performance THEN None
    ELSE LET records == model_performance[model_type]
         IN  [total_predictions |-> CountType(records, "prediction"),
              total_trainings |-> CountType(records, "training")]

RegisterModel(model_type, model_version, model) ==
    /\ models' = register_model(model_type, model_version, model)
    /\ registered' = [registered EXCEPT ![model_type][model_version] = model]
    /\ manager_last' = None
    /\ UNCHANGED <<active_models, model_performance, activated, appended, clock>>
    /\ UNCHANGED <<engineVars, deepfakeVars, thirdPartyVars, cacheVars, wsVars, streamVars, apiVars,
                   authVars>>

SetActiveModel(model_type, model_version) ==
    /\ IF set_active_model(model_type, model_version)
       THEN /\ active_models' = DictPut(active_models, model_type, model_version)
            /\ activated' = [activated EXCEPT ![model_type] = model_version]
       ELSE UNCHANGED <<active_models, activated>>
    /\ manager_last' = None
    /\ UNCHANGED <<models, model_performance, registered, appended, clock>>
    /\ UNCHANGED <<engineVars, deepfakeVars, thirdPartyVars, cacheVars, wsVars, streamVars, apiVars,
                   authVars>>

\* predict and train_model differ in the record type they track
Track(model_type, model_version, type, limit) ==
    /\ clock < limit
    /\ IF get_model(model_type, model_version) # NoneStr
       THEN LET record ==
                    PerformanceRecord(TrackedVersion(model_type, model_version),
                                      type, clock + 1)
            IN  /\ model_performance' = track(model_type, record)
                /\ appended' =
                       [appended EXCEPT ![model_type] = Append(@, record)]
                /\ clock' = clock + 1
       ELSE UNCHANGED <<model_performance, appended, clock>>
    /\ manager_last' =
           [op |-> IF type = "prediction" THEN "predict" ELSE "train_model",
            model_type |-> model_type, model_version |-> model_version,
            error |-> get_model(model_type, model_version) = NoneStr,
            before |-> appended]
    /\ UNCHANGED <<models, active_models, registered, activated>>
    /\ UNCHANGED <<engineVars, deepfakeVars, thirdPartyVars, cacheVars, wsVars, streamVars, apiVars,
                   authVars>>

Predict(model_type, model_version, limit) ==
    Track(model_type, model_version, "prediction", limit)

TrainModel(model_type, model_version, limit) ==
    Track(model_type, model_version, "training", limit)

ManagerIdle ==
    /\ models = EmptyDict
    /\ active_models = EmptyDict
    /\ model_performance = EmptyDict
    /\ registered =
           [t \in ModelTypes |->
               [v \in Versions \cup {EmptyVersion} |-> NoneStr]]
    /\ activated = [t \in ModelTypes |-> NoneStr]
    /\ appended = [t \in ModelTypes |-> <<>>]
    /\ clock = 0
    /\ manager_last = None

(***************************************************************************)
(* ThirdPartyVerificationService (src/ai/third_party/service.py)           *)
(***************************************************************************)
Services == {"snopes", "factcheck_org", "politifact"}

\* What requests.post, raise_for_status and response.json() do: the call
\* returns a JSON body (whose 'verified' the remote side chooses), or one
\* of them raises.
HttpOutcomes ==
    [kind : {"ok"}, verified : BOOLEAN]
    \cup [kind : {"ConnectionError", "Timeout", "HTTPError", "JSONDecodeError"},
          verified : {FALSE}]

\* the simulated response of each _verify_with_* except branch
Fabricated(service_name) ==
    [kind |-> "fabricated",
     verified |-> TRUE,
     rating |-> IF service_name = "factcheck_org" THEN "true" ELSE "mostly_true",
     confidence |-> CASE service_name = "snopes" -> Hundredths(85)
                      [] service_name = "factcheck_org" -> Hundredths(92)
                      [] service_name = "politifact" -> Hundredths(78)]

\* an exception that leaves a function
Raised(exception) == [kind |-> "raised", exception |-> exception]

\* _verify_with_snopes, _verify_with_factcheck_org, _verify_with_politifact:
\* the same try / except Exception around the HTTP call
verify_with_api_reraising(service_name, http) ==
    IF http.kind = "ok"
    THEN [kind |-> "response", verified |-> http.verified]
    ELSE Raised(http.kind)
verify_with_api(service_name, http) ==
    IF http.kind = "ok"
    THEN [kind |-> "response", verified |-> http.verified]
    ELSE Fabricated(service_name)

verify_with_service(service_name, http) ==
    IF service_name \in {"snopes", "factcheck_org", "politifact"}
    THEN verify_with_api(service_name, http)
    ELSE Raised("ValueError")

\* verify_text_claim: the 'results' dictionary, one entry per enabled
\* service; an exception of _verify_with_service becomes an error entry
verify_text_claim(enabled, http) ==
    [results |->
         [service_name \in enabled |->
             LET result == verify_with_service(service_name, http[service_name])
             IN  IF result.kind = "raised"
                 THEN [kind |-> "error", verified |-> FALSE,
                       error |-> result.exception]
                 ELSE result]]

ThirdPartyIdle ==
    /\ tp_enabled = {}
    /\ tp_http = EmptyDict
    /\ tp_result = None

VerifyTextClaim ==
    /\ \E http \in [tp_enabled -> HttpOutcomes] :
           /\ tp_http' = http
           /\ tp_result' = verify_text_claim(tp_enabled, http)
    /\ UNCHANGED <<tp_enabled, engineVars, deepfakeVars, managerVars, cacheVars, wsVars, streamVars, apiVars,
                   authVars>>

(***************************************************************************)
(* Cache service (src/cache/cache_service.py, src/cache/redis_client.py)   *)
(***************************************************************************)
\* Python values, tagged with their type.  A dictionary has one entry.
PyInt(i) == [t |-> "int", i |-> i]
PyStr(str) == [t |-> "str", s |-> str]
PyNone == [t |-> "NoneType"]
PyList(items) == [t |-> "list", items |-> items]
PyTuple(items) == [t |-> "tuple", items |-> items]
PySet(items) == [t |-> "set", items |-> items]
PyDict(key, val) == [t |-> "dict", key |-> key, val |-> val]

\* JSON documents (the text json.dumps writes and json.loads reads)
JNumber(i) == [j |-> "number", i |-> i]
JString(str) == [j |-> "string", s |-> str]
JNull == [j |-> "null"]
JArray(items) == [j |-> "array", items |-> items]
JObject(key, val) == [j |-> "object", key |-> key, val |-> val]

\* the values the cache is given: scalars, containers of a scalar, and
\* dictionaries with a string or an integer key
PyScalars == {PyInt(42), PyStr("data"), PyNone}
SessionDicts == {PyDict(PyStr("role"), PyStr("data")), PyDict(PyInt(42), PyStr("data"))}
PyValues ==
    PyScalars \cup SessionDicts
    \cup {PyList(<<PyInt(42)>>), PyTuple(<<PyInt(42)>>), PySet(<<PyInt(42)>>)}

\* json.dumps: None when the value is not serialisable (TypeError)
Unserialisable == [j |-> "TypeError"]
RECURSIVE json_dumps(_)
json_dumps(value) ==
    CASE value.t = "int" -> JNumber(value.i)
      [] value.t = "str" -> JString(value.s)
      [] value.t = "NoneType" -> JNull
      [] value.t \in {"list", "tuple"} ->
             LET items == [i \in 1..Len(value.items) |-> json_dumps(value.items[i])]
             IN  IF \E i \in 1..Len(items) : items[i] = Unserialisable
                 THEN Unserialisable ELSE JArray(items)
      [] value.t = "dict" ->
             LET key == CASE value.key.t = "str" -> value.key.s
                          [] value.key.t = "int" -> ToString(value.key.i)
                          [] OTHER -> NoneStr
                 val == json_dumps(value.val)
             IN  IF value.key.t \notin {"str", "int"} \/ val = Unserialisable
                 THEN Unserialisable ELSE JObject(key, val)
      [] OTHER -> Unserialisable

RECURSIVE json_loads(_)
json_loads(text) ==
    CASE text.j = "number" -> PyInt(text.i)
      [] text.j = "string" -> PyStr(text.s)
      [] text.j = "null" -> PyNone
      [] text.j = "array" ->
             PyList([i \in 1..Len(text.items) |-> json_loads(text.items[i])])
      [] text.j = "object" -> PyDict(PyStr(text.key), json_loads(text.val))

\* the largest expire argument, in clock ticks
MaxExpire == 2

\* the id the session and the metadata helpers are both called with
CacheId == 123

user_session_key(user_id) == "user_session:" \o ToString(user_id)
content_metadata_key_clashing(content_id) == "user_session:" \o ToString(content_id)
content_metadata_key(content_id) == "content_metadata:" \o ToString(content_id)

\* the three ways into the cache: cache_set / cache_get / cache_delete with
\* a key of the caller's, the user-session helpers, the content-metadata
\* helpers
CacheSlots == {"cache", "user_session", "content_metadata"}
KeyOf(slot) ==
    CASE slot = "cache" -> "test_key"
      [] slot = "user_session" -> user_session_key(CacheId)
      [] slot = "content_metadata" -> content_metadata_key(CacheId)

\* redis_client.set_cache: setex, False when Redis raises (unreachable, or
\* an expire time that is not positive)
set_cache_ok(key, value, expire) == redis_up /\ expire > 0
\* redis_client.get_cache: the stored string, None when there is none or
\* Redis raises
get_cache(key) ==
    IF redis_up /\ key \in DOMAIN redis_store
    THEN redis_store[key].value ELSE None
\* redis_client.delete_cache: the number of keys deleted, 0 when Redis raises
delete_cache(key) ==
    IF redis_up /\ key \in DOMAIN redis_store THEN 1 ELSE 0

\* the return value of cache_set
cache_set(key, value, expire) ==
    /\ json_dumps(value) # Unserialisable
    /\ set_cache_ok(key, json_dumps(value), expire)

\* the return value of cache_get
cache_get(key) ==
    LET cached_value == get_cache(key)
    IN  IF cached_value # None THEN json_loads(cached_value) ELSE PyNone

get_user_session(user_id) == cache_get(user_session_key(user_id))
get_content_metadata(content_id) == cache_get(content_metadata_key(content_id))

DictRemove(dict, key) == [k \in DOMAIN dict \ {key} |-> dict[k]]

Hist(state, value, reached) ==
    [state |-> state, value |-> value, reached |-> reached]

\* cache_set(key, value, expire) on the key of a slot
CacheSetSlot(slot, value, expire) ==
    LET key == KeyOf(slot) IN
    /\ IF cache_set(key, value, expire)
       THEN /\ redis_store' =
                   DictPut(redis_store, key,
                           [value |-> json_dumps(value), ttl |-> expire])
            /\ cache_hist' = [cache_hist EXCEPT ![slot] = Hist("set", value, TRUE)]
       ELSE /\ UNCHANGED redis_store
            /\ cache_hist' =
                   [cache_hist EXCEPT
                       ![slot] = IF @.state = "set"
                                 THEN Hist("unknown", PyNone, FALSE) ELSE @]
    /\ UNCHANGED <<redis_up, engineVars, deepfakeVars, managerVars, thirdPartyVars, wsVars, streamVars, apiVars,
                   authVars>>

\* cache_delete(key) on the key of a slot
CacheDeleteSlot(slot) ==
    LET key == KeyOf(slot) IN
    /\ redis_store' = IF delete_cache(key) = 1
                      THEN DictRemove(redis_store, key) ELSE redis_store
    /\ cache_hist' = [cache_hist EXCEPT ![slot] = Hist("deleted", PyNone, redis_up)]
    /\ UNCHANGED <<redis_up, engineVars, deepfakeVars, managerVars, thirdPartyVars, wsVars, streamVars, apiVars,
                   authVars>>

CacheSet(value, expire) == CacheSetSlot("cache", value, expire)
CacheUserSession(session_data, expire) ==
    CacheSetSlot("user_session", session_data, expire)
CacheContentMetadata(metadata, expire) ==
    CacheSetSlot("content_metadata", metadata, expire)
CacheDelete == CacheDeleteSlot("cache")
InvalidateUserSession == CacheDeleteSlot("user_session")
InvalidateContentMetadata == CacheDeleteSlot("content_metadata")

\* one tick of Redis' clock: every time to live drops by one, the keys that
\* reach zero are gone
RedisTick ==
    LET expiring == {k \in DOMAIN redis_store : redis_store[k].ttl = 1} IN
    /\ redis_store # EmptyDict
    /\ redis_store' =
           [k \in DOMAIN redis_store \ expiring |->
               [redis_store[k] EXCEPT !.ttl = @ - 1]]
    /\ cache_hist' =
           [slot \in CacheSlots |->
               IF KeyOf(slot) \in expiring
               THEN Hist("expired", PyNone, TRUE) ELSE cache_hist[slot]]
    /\ UNCHANGED <<redis_up, engineVars, deepfakeVars, managerVars, thirdPartyVars, wsVars, streamVars, apiVars,
                   authVars>>

\* the Redis server becomes unreachable, or reachable again
RedisFlip ==
    /\ redis_up' = ~redis_up
    /\ UNCHANGED <<redis_store, cache_hist, engineVars, deepfakeVars,
                   managerVars, thirdPartyVars, wsVars, streamVars, apiVars,
                   authVars>>

CacheIdle ==
    /\ redis_store = EmptyDict
    /\ redis_up = TRUE
    /\ cache_hist = [slot \in CacheSlots |-> Hist("unknown", PyNone, FALSE)]

(***************************************************************************)
(* Connection manager (src/realtime/websocket/manager.py) and the          *)
(* websocket endpoints that call it (src/realtime/websocket/api.py)        *)
(***************************************************************************)
UserIds == {1, 2}
WebSockets == {"ws1", "ws2", "ws3"}
Topics == {"user_1_notifications"}

\* dict.get(key, set())
SetAt(dict, key) == IF key \in DOMAIN dict THEN dict[key] ELSE {}

\* websocket.accept(): raises when the client is gone
AcceptOutcomes == {"accepted", "RuntimeError"}
\* connection.send_text(message_str)
SendOutcomes == {"sent", "WebSocketDisconnect", "Exception"}

\* an endpoint handler: before connect, after a connect that returned,
\* after a connect that raised, after the disconnect of its finally clause
Handler(state, user_id) == [state |-> state, user_id |-> user_id]

\* lines 33-35 of connect
add_connection(connections, websocket, user_id) ==
    DictPut(connections, user_id, SetAt(connections, user_id) \cup {websocket})

\* lines 46-49 of disconnect
discard_connection_keep_key(connections, websocket, user_id) ==
    IF user_id \in DOMAIN connections
    THEN [connections EXCEPT ![user_id] = @ \ {websocket}]
    ELSE connections
discard_connection(connections, websocket, user_id) ==
    IF user_id \in DOMAIN connections
    THEN IF connections[user_id] \ {websocket} = {}
         THEN DictRemove(connections, user_id)
         ELSE [connections EXCEPT ![user_id] = @ \ {websocket}]
    ELSE connections

\* lines 83-86 of send_personal_message
remove_disconnected_never(connections, user_id, disconnected_connections) ==
    connections
remove_disconnected(connections, user_id, disconnected_connections) ==
    IF disconnected_connections # {}
    THEN IF connections[user_id] \ disconnected_connections = {}
         THEN DictRemove(connections, user_id)
         ELSE [connections EXCEPT ![user_id] = @ \ disconnected_connections]
    ELSE connections

\* the record of a call that returned or raised
Returned(op, user_id, websocket, before, after, attempted, failed, raised) ==
    [op |-> op, user_id |-> user_id, websocket |-> websocket,
     before |-> before, after |-> after, attempted |-> attempted,
     failed |-> failed, raised |-> raised,
     subscriptions |-> user_subscriptions]

\* connect(websocket, user_id), called once by the endpoint of a websocket
Connect(websocket, user_id, accept) ==
    /\ ws_conn[websocket].state = "new"
    /\ IF accept = "accepted"
       THEN /\ active_connections' =
                   add_connection(active_connections, websocket, user_id)
            /\ ws_conn' = [ws_conn EXCEPT ![websocket] = Handler("connected", user_id)]
       ELSE /\ UNCHANGED active_connections
            /\ ws_conn' = [ws_conn EXCEPT ![websocket] = Handler("failed", user_id)]
    /\ ws_last' = Returned("connect", user_id, websocket, active_connections,
                           active_connections', {}, {}, accept # "accepted")
    /\ UNCHANGED <<user_subscriptions, ws_call, engineVars, deepfakeVars,
                   managerVars, thirdPartyVars, cacheVars, streamVars, apiVars,
                   authVars>>

\* line 49 of disconnect deletes the user's key: the set object that a
\* suspended send_personal_message to the user iterates is then no longer
\* the one in the dictionary, and it is empty
orphaned_by(call, connections) ==
    IF call # None /\ call.user_id \notin DOMAIN connections
    THEN [call EXCEPT !.orphaned = TRUE]
    ELSE call

\* disconnect(websocket, user_id), called by the finally clause of the
\* endpoint with the user id it connected with
Disconnect(websocket) ==
    LET user_id == ws_conn[websocket].user_id IN
    /\ ws_conn[websocket].state \in {"connected", "failed"}
    /\ active_connections' =
           discard_connection(active_connections, websocket, user_id)
    /\ user_subscriptions' = DictRemove(user_subscriptions, user_id)
    /\ ws_conn' = [ws_conn EXCEPT ![websocket] = Handler("closed", user_id)]
    /\ ws_last' = Returned("disconnect", user_id, websocket, active_connections,
                           active_connections', {}, {}, FALSE)
    /\ ws_call' = orphaned_by(ws_call, active_connections')
    /\ UNCHANGED <<engineVars, deepfakeVars, managerVars, thirdPartyVars,
                   cacheVars, streamVars, apiVars, authVars>>

\* send_personal_message(message, user_id) up to its first send: returns at
\* once for a user without connections, else starts the loop over the
\* user's connection set
SendPersonalMessage(user_id) ==
    /\ ws_call = None
    /\ IF user_id \in DOMAIN active_connections
       THEN /\ ws_call' = [user_id |-> user_id,
                           before |-> active_connections,
                           remaining |-> active_connections[user_id],
                           attempted |-> {},
                           disconnected_connections |-> {},
                           size |-> Cardinality(active_connections[user_id]),
                           orphaned |-> FALSE]
            /\ UNCHANGED ws_last
       ELSE /\ UNCHANGED ws_call
            /\ ws_last' = Returned("send_personal_message", user_id, NoneStr,
                                   active_connections, active_connections,
                                   {}, {}, FALSE)
    /\ UNCHANGED <<active_connections, user_subscriptions, ws_conn, engineVars,
                   deepfakeVars, managerVars, thirdPartyVars, cacheVars, streamVars, apiVars,
                   authVars>>

\* the loop body after a send that raised: lines 76-80 collect the connection
collect_stop_on_error(call, connection, outcome) ==
    IF outcome = "sent"
    THEN [call EXCEPT !.remaining = @ \ {connection},
                      !.attempted = @ \cup {connection}]
    ELSE [call EXCEPT !.remaining = {},
                      !.attempted = @ \cup {connection},
                      !.disconnected_connections = @ \cup {connection}]
collect(call, connection, outcome) ==
    [call EXCEPT !.remaining = @ \ {connection},
                 !.attempted = @ \cup {connection},
                 !.disconnected_connections =
                     IF outcome = "sent" THEN @ ELSE @ \cup {connection}]

\* one turn of the loop: await connection.send_text(message_str) on the
\* next connection of the set, in the order the set yields them
SendText(connection, outcome) ==
    /\ ws_call # None
    /\ connection \in ws_call.remaining
    /\ ws_call' = collect(ws_call, connection, outcome)
    /\ UNCHANGED <<active_connections, user_subscriptions, ws_conn, ws_last,
                   engineVars, deepfakeVars, managerVars, thirdPartyVars,
                   cacheVars, streamVars, apiVars, authVars>>

\* the loop is over: remove the collected connections and return
SendReturn ==
    /\ ws_call # None
    /\ ws_call.remaining = {}
    /\ active_connections' =
           remove_disconnected(active_connections, ws_call.user_id,
                               ws_call.disconnected_connections)
    /\ ws_last' = Returned("send_personal_message", ws_call.user_id, NoneStr,
                           ws_call.before, active_connections',
                           ws_call.attempted, ws_call.disconnected_connections,
                           FALSE)
    /\ ws_call' = None
    /\ UNCHANGED <<user_subscriptions, ws_conn, engineVars, deepfakeVars,
                   managerVars, thirdPartyVars, cacheVars, streamVars, apiVars,
                   authVars>>

\* the record of a call about subscriptions that returned
SubscriptionReturned(op, user_id, subscription, after, attempted, failed) ==
    [op |-> op, user_id |-> user_id, subscription |-> subscription,
     subscriptions |-> user_subscriptions, subscriptions_after |-> after,
     before |-> active_connections, attempted |-> attempted,
     failed |-> failed, raised |-> FALSE]

\* subscribe_user(user_id, subscription)
SubscribeUser(user_id, subscription) ==
    /\ user_subscriptions' =
           DictPut(user_subscriptions, user_id,
                   SetAt(user_subscriptions, user_id) \cup {subscription})
    /\ ws_last' = SubscriptionReturned("subscribe_user", user_id, subscription,
                                       user_subscriptions', {}, {})
    /\ UNCHANGED <<active_connections, ws_conn, ws_call, engineVars,
                   deepfakeVars, managerVars, thirdPartyVars, cacheVars, streamVars, apiVars,
                   authVars>>

\* unsubscribe_user(user_id, subscription)
UnsubscribeUser(user_id, subscription) ==
    /\ user_subscriptions' =
           IF user_id \in DOMAIN user_subscriptions
           THEN IF user_subscriptions[user_id] \ {subscription} = {}
                THEN DictRemove(user_subscriptions, user_id)
                ELSE [user_subscriptions EXCEPT ![user_id] = @ \ {subscription}]
           ELSE user_subscriptions
    /\ ws_last' = SubscriptionReturned("unsubscribe_user", user_id,
                                       subscription, user_subscriptions', {},
                                       {})
    /\ UNCHANGED <<active_connections, ws_conn, ws_call, engineVars,
                   deepfakeVars, managerVars, thirdPartyVars, cacheVars, streamVars, apiVars,
                   authVars>>

\* send_personal_message(message, user_id) among other calls: it is
\* suspended at each await connection.send_text, and connect and disconnect
\* run meanwhile.  The call up to its first await: the set iterator is
\* created and yields a first connection.
SendStart(user_id, connection, outcome) ==
    /\ ws_call = None
    /\ IF user_id \in DOMAIN active_connections
       THEN /\ connection \in active_connections[user_id]
            /\ ws_call' =
                   collect([user_id |-> user_id,
                            before |-> active_connections,
                            remaining |-> {},
                            attempted |-> {},
                            disconnected_connections |-> {},
                            size |-> Cardinality(active_connections[user_id]),
                            orphaned |-> FALSE],
                           connection, outcome)
            /\ UNCHANGED ws_last
       ELSE /\ connection = NoneStr
            /\ outcome = "sent"
            /\ UNCHANGED ws_call
            /\ ws_last' = Returned("send_personal_message", user_id, NoneStr,
                                   active_connections, active_connections,
                                   {}, {}, FALSE)
    /\ UNCHANGED <<active_connections, user_subscriptions, ws_conn, engineVars,
                   deepfakeVars, managerVars, thirdPartyVars, cacheVars,
                   streamVars, apiVars, authVars>>

\* the call resumes after an await: the set iterator is asked for the next
\* connection and raises RuntimeError ("Set changed size during iteration")
\* when the size of its set is not the one it started with; else it yields a
\* connection not yet visited (connection), or the loop ends (NoneStr), which
\* it can do early only by missing connections added meanwhile.  After the
\* loop, line 84 raises KeyError when the user's key is gone.
SendResume(connection, outcome) ==
    /\ ws_call # None
    /\ LET user_id == ws_call.user_id
           iterated == IF ws_call.orphaned THEN {}
                       ELSE active_connections[user_id]
           candidates == iterated \ ws_call.attempted
           disconnected_connections == ws_call.disconnected_connections
           Return(after, raised) ==
               /\ active_connections' = after
               /\ ws_last' = Returned("send_personal_message", user_id, NoneStr,
                                      ws_call.before, after, ws_call.attempted,
                                      disconnected_connections, raised)
               /\ ws_call' = None
       IN  IF Cardinality(iterated) # ws_call.size
           THEN /\ connection = NoneStr
                /\ outcome = "sent"
                /\ Return(active_connections, TRUE)
           ELSE IF connection # NoneStr
           THEN /\ connection \in candidates
                /\ ws_call' = collect(ws_call, connection, outcome)
                /\ UNCHANGED <<active_connections, ws_last>>
           ELSE /\ outcome = "sent"
                /\ candidates \subseteq iterated \ ws_call.before[user_id]
                /\ IF disconnected_connections = {}
                   THEN Return(active_connections, FALSE)
                   ELSE IF user_id \notin DOMAIN active_connections
                   THEN Return(active_connections, TRUE)
                   ELSE Return(remove_disconnected(active_connections, user_id,
                                                   disconnected_connections),
                               FALSE)
    /\ UNCHANGED <<user_subscriptions, ws_conn, engineVars, deepfakeVars,
                   managerVars, thirdPartyVars, cacheVars, streamVars, apiVars,
                   authVars>>

\* the orders in which a dictionary with these keys can be iterated (the
\* order in which the keys were inserted)
KeyOrders(keys) ==
    {order \in [1..Cardinality(keys) -> keys] :
        \A i, j \in DOMAIN order : i # j => order[i] # order[j]}

\* lines 115-123 of broadcast: the loop over active_connections.items(),
\* which deletes keys of the dictionary it iterates; the iterator raises
\* RuntimeError ("dictionary changed size during iteration") when it is
\* asked for the item after a deletion
RECURSIVE broadcast_remove(_, _, _)
broadcast_remove(connections, order, disconnected_connections) ==
    IF order = <<>>
    THEN [connections |-> connections, raised |-> FALSE]
    ELSE LET user_id == Head(order)
             subtracted ==
                 [connections EXCEPT ![user_id] = @ \ disconnected_connections]
             users_to_remove ==
                 {uid \in DOMAIN subtracted : subtracted[uid] = {}}
         IN  IF subtracted[user_id] = {}
             THEN [connections |->
                       [uid \in DOMAIN subtracted \ users_to_remove |->
                           subtracted[uid]],
                   raised |-> TRUE]
             ELSE broadcast_remove(subtracted, Tail(order),
                                   disconnected_connections)

\* broadcast(message): a send on every socket of every user, of which those
\* on the sockets of failed raise
Broadcast(order, failed) ==
    /\ ws_call = None
    /\ order \in KeyOrders(DOMAIN active_connections)
    /\ LET all_connections ==
               UNION {active_connections[uid] : uid \in DOMAIN active_connections}
           removed ==
               IF failed # {}
               THEN broadcast_remove(active_connections, order, failed)
               ELSE [connections |-> active_connections, raised |-> FALSE]
       IN  /\ failed \subseteq all_connections
           /\ active_connections' = removed.connections
           /\ ws_last' = Returned("broadcast", 0, NoneStr, active_connections,
                                  removed.connections, all_connections, failed,
                                  removed.raised)
    /\ UNCHANGED <<user_subscriptions, ws_conn, ws_call, engineVars,
                   deepfakeVars, managerVars, thirdPartyVars, cacheVars,
                   streamVars, apiVars, authVars>>

\* lines 156-159 of send_to_subscribers
target_users_with_any_topic(subscriptions, subscription) ==
    DOMAIN subscriptions
target_users(subscriptions, subscription) ==
    {user_id \in DOMAIN subscriptions : subscription \in subscriptions[user_id]}

\* lines 162-163 of send_to_subscribers: one send_personal_message for each
\* target user, in which the sends on the sockets of failed raise
RECURSIVE send_to_users(_, _, _)
send_to_users(connections, users_left, failed) ==
    IF users_left = {} THEN connections
    ELSE LET user_id == CHOOSE uid \in users_left : TRUE
             sent == IF user_id \in DOMAIN connections
                     THEN remove_disconnected(connections, user_id,
                                              failed \cap connections[user_id])
                     ELSE connections
         IN  send_to_users(sent, users_left \ {user_id}, failed)

\* send_to_subscribers(message, subscription)
SendToSubscribers(subscription, failed) ==
    /\ ws_call = None
    /\ LET targets == target_users(user_subscriptions, subscription)
           sockets == UNION {SetAt(active_connections, uid) : uid \in targets}
       IN  /\ failed \subseteq sockets
           /\ active_connections' =
                  send_to_users(active_connections, targets, failed)
           /\ ws_last' =
                  [SubscriptionReturned("send_to_subscribers", 0, subscription,
                                        user_subscriptions, sockets, failed)
                      EXCEPT !.before = active_connections]
    /\ UNCHANGED <<user_subscriptions, ws_conn, ws_call, engineVars,
                   deepfakeVars, managerVars, thirdPartyVars, cacheVars,
                   streamVars, apiVars, authVars>>

WSIdle ==
    /\ active_connections = EmptyDict
    /\ user_subscriptions = EmptyDict
    /\ ws_conn = [websocket \in WebSockets |-> Handler("new", 0)]
    /\ ws_call = None
    /\ ws_last = None

(***************************************************************************)
(* Streaming processor (src/realtime/streaming/processor.py)               *)
(***************************************************************************)
StreamIds == {"test_stream_1", "test_stream_2"}
StreamContentTypes == {"text_stream", "video_stream", "test_content"}
\* lines 249-250: the processors registered when the module is loaded
default_processors == {"text_stream", "video_stream"}
\* await processor(chunk_data, stream_id): it returns a result, it raises, or
\* it returns a result that json.dumps cannot serialise, so that the
\* send_update that follows raises
ProcessorOutcomes == {"result", "Exception", "unserialisable"}
\* the largest number of chunks processed for one stream
MaxChunks == 2

\* lines 55-61 of start_stream_processing
stream_info(content_type, user_id) ==
    [content_type |-> content_type, user_id |-> user_id,
     processed_chunks |-> 0, status |-> "active"]

\* the registry after a whole send_personal_message(message, user_id) in
\* which the sends on the sockets of failed raised
send_personal_message(connections, user_id, failed) ==
    IF user_id \in DOMAIN connections
    THEN remove_disconnected(connections, user_id, failed)
    ELSE connections

\* websocket_manager.send_update / send_error / send_message: build the
\* message and pass it to send_personal_message
WebSocketSend(user_id, failed) ==
    /\ ws_call = None
    /\ failed \subseteq SetAt(active_connections, user_id)
    /\ active_connections' =
           send_personal_message(active_connections, user_id, failed)
    /\ UNCHANGED <<user_subscriptions, ws_conn, ws_call, ws_last>>

\* the return value of get_stream_status, without the computed uptime
get_stream_status(stream_id) ==
    IF stream_id \notin DOMAIN active_streams
    THEN None
    ELSE active_streams[stream_id]

StreamReturned(op, stream_id, content_type, returned, before, after) ==
    [op |-> op, stream_id |-> stream_id, content_type |-> content_type,
     registered |-> content_type \in processors, outcome |-> NoneStr,
     sent |-> <<>>,
     returned |-> returned, before |-> before, after |-> after]

\* register_processor(content_type, processor)
RegisterProcessor(content_type) ==
    /\ processors' = processors \cup {content_type}
    /\ UNCHANGED <<active_streams, stream_last, completions, wsVars,
                   engineVars, deepfakeVars, managerVars, thirdPartyVars,
                   cacheVars, apiVars, authVars>>

\* lines 46-61 of start_stream_processing
store_stream_unchecked(stream_id, content_type, user_id) ==
    DictPut(active_streams, stream_id, stream_info(content_type, user_id))
store_stream(stream_id, content_type, user_id) ==
    IF content_type \notin processors
    THEN active_streams
    ELSE DictPut(active_streams, stream_id,
                 stream_info(content_type, user_id))

\* start_stream_processing(stream_id, content_type, initial_data, user_id)
StartStreamProcessing(stream_id, content_type, user_id, failed) ==
    /\ active_streams' = store_stream(stream_id, content_type, user_id)
    /\ WebSocketSend(user_id, failed)
    /\ stream_last' =
           [StreamReturned("start_stream_processing", stream_id, content_type,
                           content_type \in processors,
                           active_streams, active_streams')
               EXCEPT !.sent = <<IF content_type \in processors
                                 THEN "stream_start" ELSE "error", user_id>>]
    /\ completions' =
           IF content_type \in processors
           THEN [completions EXCEPT ![stream_id] = 0] ELSE completions
    /\ UNCHANGED <<processors, engineVars, deepfakeVars, managerVars,
                   thirdPartyVars, cacheVars, apiVars, authVars>>

\* line 105 of process_stream_chunk
count_chunk_unless_first(streams, stream_id) ==
    [streams EXCEPT ![stream_id].processed_chunks = IF @ = 0 THEN @ ELSE @ + 1]
count_chunk(streams, stream_id) ==
    [streams EXCEPT ![stream_id].processed_chunks = @ + 1]

\* process_stream_chunk(stream_id, chunk_data)
ProcessStreamChunk(stream_id, outcome, failed) ==
    /\ IF stream_id \notin DOMAIN active_streams
       THEN /\ UNCHANGED <<active_streams, completions, wsVars, apiVars, authVars>>
            /\ stream_last' =
                   StreamReturned("process_stream_chunk", stream_id, NoneStr,
                                  FALSE, active_streams, active_streams)
       ELSE LET stream == active_streams[stream_id] IN
            IF stream.content_type \notin processors
            THEN /\ UNCHANGED <<active_streams, completions, wsVars, apiVars, authVars>>
                 /\ stream_last' =
                        StreamReturned("process_stream_chunk", stream_id,
                                       stream.content_type, FALSE,
                                       active_streams, active_streams)
            ELSE /\ stream.processed_chunks < MaxChunks
                 /\ active_streams' =
                        IF outcome = "Exception"
                        THEN active_streams
                        ELSE count_chunk(active_streams, stream_id)
                 /\ completions' =
                        IF outcome = "Exception"
                        THEN completions
                        ELSE [completions EXCEPT ![stream_id] = @ + 1]
                 /\ WebSocketSend(stream.user_id, failed)
                 /\ stream_last' =
                        [StreamReturned("process_stream_chunk", stream_id,
                                        stream.content_type, outcome = "result",
                                        active_streams, active_streams')
                            EXCEPT !.outcome = outcome]
    /\ UNCHANGED <<processors, engineVars, deepfakeVars, managerVars,
                   thirdPartyVars, cacheVars, apiVars, authVars>>

\* lines 161-162 of stop_stream_processing
clean_up_stream_left(streams, stream_id) ==
    [streams EXCEPT ![stream_id].status = "completed"]
clean_up_stream(streams, stream_id) == DictRemove(streams, stream_id)

\* stop_stream_processing(stream_id)
StopStreamProcessing(stream_id, failed) ==
    /\ IF stream_id \notin DOMAIN active_streams
       THEN /\ UNCHANGED <<active_streams, wsVars, apiVars, authVars>>
            /\ stream_last' =
                   StreamReturned("stop_stream_processing", stream_id, NoneStr,
                                  FALSE, active_streams, active_streams)
       ELSE LET completed ==
                    [active_streams EXCEPT ![stream_id].status = "completed"]
            IN  /\ WebSocketSend(completed[stream_id].user_id, failed)
                /\ active_streams' = clean_up_stream(completed, stream_id)
                /\ stream_last' =
                       StreamReturned("stop_stream_processing", stream_id,
                                      completed[stream_id].content_type, TRUE,
                                      active_streams, active_streams')
    /\ completions' = [completions EXCEPT ![stream_id] = 0]
    /\ UNCHANGED <<processors, engineVars, deepfakeVars, managerVars,
                   thirdPartyVars, cacheVars, apiVars, authVars>>

\* the streaming calls that run interleaved
MaxCalls == 2
Calls == 1 .. MaxCalls

\* one call of process_stream_chunk or stop_stream_processing: where it is
\* suspended, the update it handed to the websocket manager, whether line
\* 105 ran, its return value and whether it raised; during holds the
\* stop_stream_processing calls for the same stream that were suspended when
\* it began
CallFrame(pc, op, stream_id, user_id, outcome) ==
    [pc |-> pc, op |-> op, stream_id |-> stream_id, user_id |-> user_id,
     outcome |-> outcome, sent |-> NoneStr, counted |-> FALSE,
     returned |-> FALSE, raised |-> FALSE, during |-> {}]
idle_call == CallFrame("idle", NoneStr, NoneStr, 0, NoneStr)
in_flight(call) == stream_calls[call].pc \notin {"idle", "returned"}
\* the calls are numbered in the order in which they begin
next_call(call) ==
    /\ stream_calls[call].pc = "idle"
    /\ \A earlier \in 1 .. call - 1 : stream_calls[earlier].pc # "idle"

\* send_update and send_error end in the loop of send_personal_message,
\* which awaits connection.send_text once per socket of the user and awaits
\* nothing when the user has none
send_suspends(user_id) == user_id \in DOMAIN active_connections

\* the processors of lines 193-250 await nothing, so a call that runs one
\* of them reaches the next await without a suspension; one registered
\* later may suspend
processor_suspends(content_type) == content_type \notin default_processors

\* a call that handed an update to the websocket manager: suspended in the
\* send, or past it when the send awaits nothing
after_send(frame, returned) ==
    IF send_suspends(frame.user_id)
    THEN [frame EXCEPT !.pc = "send", !.returned = returned]
    ELSE [frame EXCEPT !.pc = "returned", !.returned = returned]

\* lines 99-126 of process_stream_chunk, from the return of the processor to
\* the next await.  Line 105 increments the dictionary the call got on line
\* 91, which a stop_stream_processing may have deleted from active_streams
\* meanwhile; nothing reads that dictionary again.
ChunkProcessed(call, frame) ==
    LET stream_id == frame.stream_id
        counted == [frame EXCEPT !.counted = TRUE]
    IN  IF frame.outcome = "Exception"
        THEN /\ stream_calls' =
                    [stream_calls EXCEPT
                        ![call] = after_send([frame EXCEPT !.sent = "error"],
                                             FALSE)]
             /\ stream_updates' = Append(stream_updates, <<"error", stream_id, 0>>)
             /\ UNCHANGED active_streams
        ELSE /\ active_streams' =
                    IF stream_id \in DOMAIN active_streams
                    THEN count_chunk(active_streams, stream_id)
                    ELSE active_streams
             /\ IF frame.outcome = "result"
                THEN /\ stream_calls' =
                            [stream_calls EXCEPT
                                ![call] = after_send(
                                    [counted EXCEPT
                                        !.sent = "stream_chunk_processed"],
                                    TRUE)]
                     /\ stream_updates' =
                            Append(stream_updates,
                                   <<"stream_chunk_processed", stream_id, 0>>)
                ELSE /\ stream_calls' =
                            [stream_calls EXCEPT
                                ![call] = after_send(
                                    [counted EXCEPT !.sent = "error"], FALSE)]
                     /\ stream_updates' =
                            Append(stream_updates, <<"error", stream_id, 0>>)

\* process_stream_chunk(stream_id, chunk_data) up to its first suspension
ChunkBegin(call, stream_id, outcome) ==
    /\ next_call(call)
    /\ IF \/ stream_id \notin DOMAIN active_streams
          \/ active_streams[stream_id].content_type \notin processors
       THEN /\ stream_calls' =
                   [stream_calls EXCEPT
                       ![call] = [CallFrame("returned", "process_stream_chunk",
                                            stream_id, 0, outcome)
                                     EXCEPT !.returned = FALSE]]
            /\ UNCHANGED <<active_streams, stream_updates>>
       ELSE LET stream == active_streams[stream_id]
                frame == CallFrame("processor", "process_stream_chunk",
                                   stream_id, stream.user_id, outcome)
            IN  IF processor_suspends(stream.content_type)
                THEN /\ stream_calls' = [stream_calls EXCEPT ![call] = frame]
                     /\ UNCHANGED <<active_streams, stream_updates>>
                ELSE ChunkProcessed(call, frame)
    /\ UNCHANGED <<processors, stream_last, completions, stream_response,
                   wsVars, engineVars, deepfakeVars, managerVars,
                   thirdPartyVars, cacheVars, apiVars, authVars>>

\* the processor awaited on line 102 returns or raises
ChunkResume(call) ==
    /\ stream_calls[call].pc = "processor"
    /\ ChunkProcessed(call, stream_calls[call])
    /\ UNCHANGED <<processors, stream_last, completions, stream_response,
                   wsVars, engineVars, deepfakeVars, managerVars,
                   thirdPartyVars, cacheVars, apiVars, authVars>>

\* the send awaited on line 108 or 122 returns, and the call with it
ChunkReturn(call) ==
    /\ stream_calls[call].pc = "send"
    /\ stream_calls[call].op = "process_stream_chunk"
    /\ stream_calls' = [stream_calls EXCEPT ![call].pc = "returned"]
    /\ UNCHANGED <<processors, active_streams, stream_last, completions,
                   stream_response, stream_updates, wsVars, engineVars,
                   deepfakeVars, managerVars, thirdPartyVars, cacheVars,
                   apiVars, authVars>>

\* line 162 of stop_stream_processing: del raises KeyError when another
\* call deleted the stream meanwhile
StopReturned(call, frame) ==
    IF frame.stream_id \in DOMAIN active_streams
    THEN /\ active_streams' = clean_up_stream(active_streams, frame.stream_id)
         /\ stream_calls' =
                [stream_calls EXCEPT
                    ![call] = [frame EXCEPT !.pc = "returned",
                                            !.returned = TRUE]]
    ELSE /\ UNCHANGED active_streams
         /\ stream_calls' =
                [stream_calls EXCEPT
                    ![call] = [frame EXCEPT !.pc = "returned",
                                            !.returned = FALSE,
                                            !.raised = TRUE]]

\* stop_stream_processing(stream_id) up to its suspension in the send of
\* line 149, or to its return when the send awaits nothing
StopBegin(call, stream_id) ==
    /\ next_call(call)
    /\ IF stream_id \notin DOMAIN active_streams
       THEN /\ stream_calls' =
                   [stream_calls EXCEPT
                       ![call] = CallFrame("returned", "stop_stream_processing",
                                           stream_id, 0, NoneStr)]
            /\ UNCHANGED <<active_streams, stream_updates>>
       ELSE LET stream == active_streams[stream_id]
                frame ==
                    [CallFrame("send", "stop_stream_processing", stream_id,
                               stream.user_id, NoneStr)
                        EXCEPT !.sent = "stream_complete",
                               !.during =
                                   {other \in Calls :
                                       /\ in_flight(other)
                                       /\ stream_calls[other].op =
                                              "stop_stream_processing"
                                       /\ stream_calls[other].stream_id =
                                              stream_id}]
            IN  /\ stream_updates' =
                       Append(stream_updates,
                              <<"stream_complete", stream_id,
                                stream.processed_chunks>>)
                /\ IF send_suspends(stream.user_id)
                   THEN /\ active_streams' =
                               [active_streams EXCEPT
                                   ![stream_id].status = "completed"]
                        /\ stream_calls' = [stream_calls EXCEPT ![call] = frame]
                   ELSE StopReturned(call, frame)
    /\ UNCHANGED <<processors, stream_last, completions, stream_response,
                   wsVars, engineVars, deepfakeVars, managerVars,
                   thirdPartyVars, cacheVars, apiVars, authVars>>

\* the send awaited on line 149 returns
StopResume(call) ==
    /\ stream_calls[call].pc = "send"
    /\ stream_calls[call].op = "stop_stream_processing"
    /\ StopReturned(call, stream_calls[call])
    /\ UNCHANGED <<processors, stream_last, completions, stream_response,
                   stream_updates, wsVars, engineVars, deepfakeVars,
                   managerVars, thirdPartyVars, cacheVars, apiVars, authVars>>

StreamIdle ==
    /\ processors = default_processors
    /\ active_streams = EmptyDict
    /\ stream_last = None
    /\ completions = [stream_id \in StreamIds |-> 0]
    /\ stream_response = None
    /\ stream_calls = [call \in Calls |-> idle_call]
    /\ stream_updates = <<>>

(***************************************************************************)
(* Streaming routes (src/realtime/streaming/api.py)                        *)
(*                                                                         *)
(* Each handler has its whole body in a try block whose except clause is   *)
(* "except Exception", and HTTPException is an Exception.                  *)
(***************************************************************************)
StreamResponse(route, stream_id, success, status_code, detail) ==
    [route |-> route, stream_id |-> stream_id, success |-> success,
     status_code |-> status_code, detail |-> detail]

\* raise HTTPException(status_code, detail) inside the try block: the except
\* clause catches it and raises HTTPException(500, prefix + str(e))
raise_in_try(status_code, detail, prefix) == <<500, prefix, status_code, detail>>

\* the response of a handler to what the processor returned
stream_route_response(route, stream_id, success, status_code, detail, prefix) ==
    IF success
    THEN StreamResponse(route, stream_id, TRUE, 200, <<>>)
    ELSE LET raised == raise_in_try(status_code, detail, prefix)
         IN  StreamResponse(route, stream_id, FALSE, raised[1],
                            Tail(raised))

\* POST /start: start_streaming; the stream id is a fresh uuid4
StartStreaming(stream_id, content_type, user_id, failed) ==
    /\ stream_id \notin DOMAIN active_streams
    /\ StartStreamProcessing(stream_id, content_type, user_id, failed)
    /\ stream_response' =
           stream_route_response("start_streaming", stream_id,
                                 stream_last'.returned, 400,
                                 "Failed to start stream processing",
                                 "Error starting stream: ")
    /\ UNCHANGED streamCallVars

\* POST /chunk/{stream_id}: process_stream_chunk
ProcessStreamChunkRoute(stream_id, outcome, failed) ==
    /\ ProcessStreamChunk(stream_id, outcome, failed)
    /\ stream_response' =
           stream_route_response("process_stream_chunk", stream_id,
                                 stream_last'.returned, 400,
                                 "Failed to process stream chunk",
                                 "Error processing stream chunk: ")
    /\ UNCHANGED streamCallVars

\* POST /stop/{stream_id}: stop_streaming
StopStreaming(stream_id, failed) ==
    /\ StopStreamProcessing(stream_id, failed)
    /\ stream_response' =
           stream_route_response("stop_streaming", stream_id,
                                 stream_last'.returned, 400,
                                 "Failed to stop stream processing",
                                 "Error stopping stream: ")
    /\ UNCHANGED streamCallVars

\* GET /status/{stream_id}: get_stream_status
GetStreamStatus(stream_id) ==
    /\ stream_response' =
           stream_route_response("get_stream_status", stream_id,
                                 get_stream_status(stream_id) # None, 404,
                                 "Stream not found",
                                 "Error getting stream status: ")
    /\ UNCHANGED <<processors, active_streams, stream_last, completions,
                   streamCallVars,
                   engineVars, deepfakeVars, managerVars, thirdPartyVars,
                   cacheVars, wsVars, apiVars, authVars>>

(***************************************************************************)
(* Content routes (src/api/content.py, src/ai/api.py)                      *)
(*                                                                         *)
(* A route takes the exception its try block meets, if any, as an input:   *)
(* the storage server, the database and the download are outside the       *)
(* program.  The stored objects are not modelled: no route reads them.     *)
(***************************************************************************)
ContentIds == {1, 2}
\* file.content_type of an upload
UploadTypes == {"text/plain", "image/jpeg", "video/mp4"}

\* how often an analysis field of a row has been written
Written(count) ==
    CASE count = "never" -> "once"
      [] OTHER -> "again"

\* Content(user_id=..., content_type=..., status="uploaded"); a column
\* that is NULL holds None, a Float column that is NULL holds Absent
new_content_analysed(user_id, content_type) ==
    [user_id |-> user_id, content_type |-> content_type, status |-> "completed",
     verification_score |-> 0, verification_result |-> None,
     deepfake_probability |-> Absent, deepfake_result |-> None,
     verification_written |-> "never", deepfake_written |-> "never"]
new_content(user_id, content_type) ==
    [user_id |-> user_id, content_type |-> content_type, status |-> "uploaded",
     verification_score |-> Absent, verification_result |-> None,
     deepfake_probability |-> Absent, deepfake_result |-> None,
     verification_written |-> "never", deepfake_written |-> "never"]

\* db.query(Content).filter(Content.id == content_id,
\*                          Content.user_id == current_user.id).first()
query_content_of_any_user(content_id, user_id) ==
    IF content_id \in DOMAIN content_table
    THEN content_table[content_id] ELSE None
query_content(content_id, user_id) ==
    IF content_id \in DOMAIN content_table
       /\ content_table[content_id].user_id = user_id
    THEN content_table[content_id] ELSE None

\* HTTPException(status_code, detail); detail is a prefix and the str(e)
\* appended to it
Response(route, user_id, content_id, status_code, prefix, exception) ==
    [route |-> route, content_id |-> content_id, status_code |-> status_code,
     detail |-> <<prefix, exception>>, raised |-> exception,
     found |-> content_id \in DOMAIN content_table,
     owned |-> query_content(content_id, user_id) # None,
     changed |-> content_table' # content_table,
     user_id |-> user_id,
     owner |-> IF content_id \in DOMAIN content_table
               THEN content_table[content_id].user_id ELSE 0,
     returned |-> {}]

\* verification_engine.verify_content(b"simulated content data", ...): three
\* words of text without a pattern match
simulated_verification(content_type) ==
    verify_content(
        [content_type |-> content_type,
         content |-> IF content_type = "text/plain"
                     THEN [kind |-> "text", matches |-> [i \in 1..4 |-> 0],
                           words |-> "lt50"]
                     ELSE [kind |-> "bytes"]], 0)

\* deepfake_engine.detect_deepfake(b"simulated content data", ...) with the
\* metadata of the route, which holds none of the keys the engine reads
simulated_deepfake(content_type) ==
    detect_deepfake(
        IF content_type = "video/mp4"
        THEN [content_type |-> "video",
              metadata |-> [duration |-> Absent, bitrate |-> Absent]]
        ELSE [content_type |-> "image",
              metadata |-> [exif |-> None, width |-> Absent, height |-> Absent]],
        0)

\* POST /upload: upload_content
UploadContent(user_id, content_type, exception) ==
    /\ next_content_id \in ContentIds
    /\ exception \in {NoneStr, "S3Error", "OperationalError"}
    /\ IF exception = NoneStr
       THEN /\ content_table' =
                   DictPut(content_table, next_content_id,
                           new_content(user_id, content_type))
            /\ next_content_id' = next_content_id + 1
            /\ api_last' = Response("upload_content", user_id, next_content_id, 201,
                                    NoneStr, NoneStr)
       ELSE /\ UNCHANGED <<content_table, next_content_id>>
            /\ api_last' = Response("upload_content", user_id, 0, 500,
                                    "Error uploading file: ", exception)
    /\ UNCHANGED <<engineVars, deepfakeVars, managerVars, thirdPartyVars,
                   cacheVars, wsVars, streamVars, authVars>>

\* the except clauses of upload_content_from_url
url_error_uniform(exception) ==
    <<500, "Error processing content: ">>
url_error(exception) ==
    IF exception \in {"ConnectionError", "HTTPError"}
    THEN <<400, "Error downloading content from URL: ">>
    ELSE <<500, "Error processing content: ">>

\* POST /url: upload_content_from_url
UploadContentFromUrl(user_id, content_type, exception) ==
    /\ next_content_id \in ContentIds
    /\ exception \in {NoneStr, "ConnectionError", "HTTPError", "S3Error",
                      "OperationalError"}
    /\ IF exception = NoneStr
       THEN /\ content_table' =
                   DictPut(content_table, next_content_id,
                           new_content(user_id, content_type))
            /\ next_content_id' = next_content_id + 1
            /\ api_last' = Response("upload_content_from_url", user_id, next_content_id, 201, NoneStr, NoneStr)
       ELSE /\ UNCHANGED <<content_table, next_content_id>>
            /\ api_last' = Response("upload_content_from_url", user_id, 0,
                                    url_error(exception)[1],
                                    url_error(exception)[2], exception)
    /\ UNCHANGED <<engineVars, deepfakeVars, managerVars, thirdPartyVars,
                   cacheVars, wsVars, streamVars, authVars>>

\* POST /verify: verify_content of src/ai/api.py
VerifyContentRoute(user_id, content_id, exception) ==
    /\ exception \in {NoneStr, "OperationalError"}
    /\ IF query_content(content_id, user_id) = None
       THEN /\ UNCHANGED content_table
            /\ api_last' = Response("verify_content", user_id, content_id, 404,
                                    "Content not found", NoneStr)
       ELSE IF exception = NoneStr
       THEN LET verification_result ==
                    simulated_verification(content_table[content_id].content_type)
            IN  /\ content_table' =
                       [content_table EXCEPT
                           ![content_id].verification_result = verification_result,
                           ![content_id].verification_score =
                               verification_result.verification_score,
                           ![content_id].verification_written = Written(@)]
                /\ api_last' = Response("verify_content", user_id, content_id, 200,
                                        NoneStr, NoneStr)
       ELSE /\ UNCHANGED content_table
            /\ api_last' = Response("verify_content", user_id, content_id, 500,
                                    "Error verifying content: ", exception)
    /\ UNCHANGED <<next_content_id, engineVars, deepfakeVars, managerVars,
                   thirdPartyVars, cacheVars, wsVars, streamVars, authVars>>

\* POST /deepfake-detect: detect_deepfake of src/ai/api.py
DetectDeepfakeRoute(user_id, content_id, exception) ==
    /\ exception \in {NoneStr, "OperationalError"}
    /\ IF query_content(content_id, user_id) = None
       THEN /\ UNCHANGED content_table
            /\ api_last' = Response("detect_deepfake", user_id, content_id, 404,
                                    "Content not found", NoneStr)
       ELSE IF exception = NoneStr
       THEN LET deepfake_result ==
                    simulated_deepfake(content_table[content_id].content_type)
            IN  /\ content_table' =
                       [content_table EXCEPT
                           ![content_id].deepfake_result = deepfake_result,
                           ![content_id].deepfake_probability =
                               deepfake_result.deepfake_probability,
                           ![content_id].deepfake_written = Written(@)]
                /\ api_last' = Response("detect_deepfake", user_id, content_id, 200,
                                        NoneStr, NoneStr)
       ELSE /\ UNCHANGED content_table
            /\ api_last' = Response("detect_deepfake", user_id, content_id, 500,
                                    "Error detecting deepfake: ", exception)
    /\ UNCHANGED <<next_content_id, engineVars, deepfakeVars, managerVars,
                   thirdPartyVars, cacheVars, wsVars, streamVars, authVars>>

\* DELETE /{content_id}: delete_content; delete_file returns True, returns
\* False (S3Error) or raises, and the row is deleted in each case
delete_row_if_stored_deleted(table, content_id, storage) ==
    IF storage = "deleted" THEN DictRemove(table, content_id) ELSE table
delete_row(table, content_id, storage) == DictRemove(table, content_id)

DeleteContent(user_id, content_id, storage) ==
    /\ storage \in {"deleted", "S3Error", "ConnectionError"}
    /\ IF query_content(content_id, user_id) = None
       THEN /\ UNCHANGED content_table
            /\ api_last' = Response("delete_content", user_id, content_id, 404,
                                    "Content not found", NoneStr)
       ELSE /\ content_table' = delete_row(content_table, content_id, storage)
            /\ api_last' = [Response("delete_content", user_id, content_id, 204,
                                     NoneStr, NoneStr)
                               EXCEPT !.raised = storage]
    /\ UNCHANGED <<next_content_id, engineVars, deepfakeVars, managerVars,
                   thirdPartyVars, cacheVars, wsVars, streamVars, authVars>>

\* a Content row as a response holds it: its id and its owner
Returned_row(content_id) == <<content_id, content_table[content_id].user_id>>

\* GET /{content_id}: get_content, and GET /content/{content_id}/analysis:
\* get_content_analysis, which read the row by the same query
ReadContent(route, user_id, content_id) ==
    /\ route \in {"get_content", "get_content_analysis"}
    /\ UNCHANGED content_table
    /\ IF query_content(content_id, user_id) = None
       THEN api_last' = Response(route, user_id, content_id, 404,
                                 "Content not found", NoneStr)
       ELSE api_last' = [Response(route, user_id, content_id, 200, NoneStr,
                                  NoneStr)
                            EXCEPT !.returned = {Returned_row(content_id)}]
    /\ UNCHANGED <<next_content_id, engineVars, deepfakeVars, managerVars,
                   thirdPartyVars, cacheVars, wsVars, streamVars, authVars>>

\* GET /: list_content with its default skip and limit
ListContent(user_id) ==
    /\ UNCHANGED content_table
    /\ api_last' =
           [Response("list_content", user_id, 0, 200, NoneStr, NoneStr)
               EXCEPT !.returned =
                   {Returned_row(content_id) :
                       content_id \in
                           {id \in DOMAIN content_table :
                               query_content(id, user_id) # None}}]
    /\ UNCHANGED <<next_content_id, engineVars, deepfakeVars, managerVars,
                   thirdPartyVars, cacheVars, wsVars, streamVars, authVars>>

WebIdle ==
    /\ content_table = EmptyDict
    /\ next_content_id = 1
    /\ api_last = None

(***************************************************************************)
(* Registration (src/api/auth.py, src/models/user.py)                      *)
(*                                                                         *)
(* register_user runs in the server's thread pool, so the requests         *)
(* interleave between the query for the email and the commit.              *)
(***************************************************************************)
Requests == {"r1", "r2", "r3"}
Emails == {"test@example.com", "newuser@example.com"}
Usernames == {"testuser", "newuser", "different_username"}

new_user(email, username) == [email |-> email, username |-> username]

\* line 20: db.query(User).filter(User.email == user.email).first()
query_user(email) ==
    IF \E id \in DOMAIN users : users[id].email = email
    THEN users[CHOOSE id \in DOMAIN users :
                   /\ users[id].email = email
                   /\ \A other \in DOMAIN users :
                          users[other].email = email => id <= other]
    ELSE None

\* models/user.py lines 14-15: email and username are unique=True, so the
\* database refuses a row that repeats either
unique_violation_email_only(table, row) ==
    \E id \in DOMAIN table : table[id].email = row.email
unique_violation(table, row) ==
    \E id \in DOMAIN table :
        table[id].email = row.email \/ table[id].username = row.username

RegisterCall(pc, row, found, status_code, detail) ==
    [pc |-> pc, user |-> row, found |-> found, status_code |-> status_code,
     detail |-> detail]

\* lines 19-22: a request arrives, and the handler looks for the email
RegisterQuery(request, email, username) ==
    /\ register_calls[request].pc \in {"idle", "done"}
    /\ register_calls' =
           [register_calls EXCEPT ![request] =
               IF query_user(email) # None
               THEN RegisterCall("done", new_user(email, username), TRUE, 400,
                                 "Email already registered")
               ELSE RegisterCall("commit", new_user(email, username), FALSE,
                                 0, NoneStr)]
    /\ UNCHANGED <<users, engineVars, deepfakeVars, managerVars,
                   thirdPartyVars, cacheVars, wsVars, streamVars, apiVars>>

\* lines 24-36: add the user and commit; no handler catches the
\* IntegrityError of a refused row, which the server answers with 500
RegisterCommit(request) ==
    /\ register_calls[request].pc = "commit"
    /\ LET call == register_calls[request] IN
       IF unique_violation(users, call.user)
       THEN /\ users' = users
            /\ register_calls' =
                   [register_calls EXCEPT ![request] =
                       RegisterCall("done", call.user, FALSE, 500,
                                    "IntegrityError")]
       ELSE /\ users' = Append(users, call.user)
            /\ register_calls' =
                   [register_calls EXCEPT ![request] =
                       RegisterCall("done", call.user, FALSE, 201, NoneStr)]
    /\ UNCHANGED <<engineVars, deepfakeVars, managerVars, thirdPartyVars,
                   cacheVars, wsVars, streamVars, apiVars>>

AuthIdle ==
    /\ users = << >>
    /\ register_calls =
           [request \in Requests |->
               RegisterCall("idle", new_user(NoneStr, NoneStr), FALSE, 0,
                            NoneStr)]

(***************************************************************************)
(* Specifications                                                          *)
(***************************************************************************)
InitEngine ==
    /\ vreq \in VerifyRequests
    /\ vres = None
    /\ DeepfakeIdle
    /\ ManagerIdle
    /\ ThirdPartyIdle
    /\ CacheIdle
    /\ WSIdle
    /\ StreamIdle
    /\ WebIdle
    /\ AuthIdle
NextEngine == VerifyContent
SpecEngine == InitEngine /\ [][NextEngine]_vars

InitDeepfake ==
    /\ dreq \in DeepfakeRequests
    /\ dres = None
    /\ EngineIdle
    /\ ManagerIdle
    /\ ThirdPartyIdle
    /\ CacheIdle
    /\ WSIdle
    /\ StreamIdle
    /\ WebIdle
    /\ AuthIdle
NextDeepfake == DetectDeepfake
SpecDeepfake == InitDeepfake /\ [][NextDeepfake]_vars

\* a ModelManager() as constructed
InitManager ==
    /\ ManagerIdle
    /\ EngineIdle
    /\ DeepfakeIdle
    /\ ThirdPartyIdle
    /\ CacheIdle
    /\ WSIdle
    /\ StreamIdle
    /\ WebIdle
    /\ AuthIdle
NextManager ==
    \/ \E t \in ModelTypes, v \in Versions, m \in ModelObjs :
           RegisterModel(t, v, m)
    \/ \E t \in ModelTypes, v \in Versions : SetActiveModel(t, v)
    \/ \E t \in ModelTypes, v \in Versions \cup {NoneStr} :
           Predict(t, v, MaxTracked)
    \/ \E t \in ModelTypes, v \in Versions \cup {NoneStr} :
           TrainModel(t, v, MaxTracked)
SpecManager == InitManager /\ [][NextManager]_vars

\* the same manager, called with a version string that is empty
NextManagerEmptyVersion ==
    \/ \E t \in ModelTypes, v \in {"1.0.0", EmptyVersion}, m \in ModelObjs :
           RegisterModel(t, v, m)
    \/ \E t \in ModelTypes, v \in {"1.0.0", EmptyVersion} :
           SetActiveModel(t, v)
    \/ \E t \in ModelTypes, v \in {"1.0.0", EmptyVersion, NoneStr} :
           Predict(t, v, MaxTracked)
    \/ \E t \in ModelTypes, v \in {"1.0.0", EmptyVersion, NoneStr} :
           TrainModel(t, v, MaxTracked)
SpecManagerEmptyVersion == InitManager /\ [][NextManagerEmptyVersion]_vars

\* The manager after initialize_default_models, the registration of a
\* second text model and LogCap - 2 predictions of the active text model:
\* two more records fill the log, the next truncates it.
Prefill == LogCap - 2
PrefilledLog ==
    [i \in 1..Prefill |-> PerformanceRecord("1.0.0", "prediction", i)]
InitManagerLog ==
    /\ models = [t \in ModelTypes |->
                    [v \in (IF t = "text_analysis" THEN Versions ELSE {"1.0.0"})
                        |-> IF t = "text_analysis" THEN "text_model"
                            ELSE "image_model"]]
    /\ active_models = [t \in ModelTypes |-> "1.0.0"]
    /\ model_performance = [t \in {"text_analysis"} |-> PrefilledLog]
    /\ registered =
           [t \in ModelTypes |->
               [v \in Versions |->
                   IF t = "text_analysis" THEN "text_model"
                   ELSE IF v = "1.0.0" THEN "image_model"
                   ELSE NoneStr]]
    /\ activated = [t \in ModelTypes |-> "1.0.0"]
    /\ appended = [t \in ModelTypes |->
                      IF t = "text_analysis" THEN PrefilledLog ELSE <<>>]
    /\ clock = Prefill
    /\ manager_last = None
    /\ EngineIdle
    /\ DeepfakeIdle
    /\ ThirdPartyIdle
    /\ CacheIdle
    /\ WSIdle
    /\ StreamIdle
    /\ WebIdle
    /\ AuthIdle
NextManagerLog ==
    \/ \E t \in ModelTypes, v \in Versions \cup {NoneStr} :
           Predict(t, v, Prefill + MaxTrackedLog)
    \/ \E t \in ModelTypes, v \in Versions \cup {NoneStr} :
           TrainModel(t, v, Prefill + MaxTrackedLog)
SpecManagerLog == InitManagerLog /\ [][NextManagerLog]_vars

\* the service as constructed: the API keys of the environment decide which
\* services are enabled
InitThirdParty ==
    /\ tp_enabled \in SUBSET Services
    /\ tp_http = EmptyDict
    /\ tp_result = None
    /\ EngineIdle
    /\ DeepfakeIdle
    /\ ManagerIdle
    /\ CacheIdle
    /\ WSIdle
    /\ StreamIdle
    /\ WebIdle
    /\ AuthIdle
NextThirdParty == VerifyTextClaim
SpecThirdParty == InitThirdParty /\ [][NextThirdParty]_vars

\* an empty, reachable Redis
InitCache ==
    /\ CacheIdle
    /\ EngineIdle
    /\ DeepfakeIdle
    /\ ManagerIdle
    /\ ThirdPartyIdle
    /\ WSIdle
    /\ StreamIdle
    /\ WebIdle
    /\ AuthIdle
NextCache ==
    \/ \E value \in PyValues, expire \in 0..MaxExpire : CacheSet(value, expire)
    \/ \E session_data \in SessionDicts, expire \in 0..MaxExpire :
           CacheUserSession(session_data, expire)
    \/ \E metadata \in SessionDicts, expire \in 0..MaxExpire :
           CacheContentMetadata(metadata, expire)
    \/ CacheDelete
    \/ InvalidateUserSession
    \/ InvalidateContentMetadata
    \/ RedisTick
    \/ RedisFlip
SpecCache == InitCache /\ [][NextCache]_vars

\* a connection manager without connections; the calls run one at a time
InitWS ==
    /\ WSIdle
    /\ EngineIdle
    /\ DeepfakeIdle
    /\ ManagerIdle
    /\ ThirdPartyIdle
    /\ CacheIdle
    /\ StreamIdle
    /\ WebIdle
    /\ AuthIdle
NextWS ==
    \/ /\ ws_call = None
       /\ \E websocket \in WebSockets, user_id \in UserIds, accept \in AcceptOutcomes :
              Connect(websocket, user_id, accept)
    \/ /\ ws_call = None
       /\ \E websocket \in WebSockets : Disconnect(websocket)
    \/ \E user_id \in UserIds : SendPersonalMessage(user_id)
    \/ \E connection \in WebSockets, outcome \in SendOutcomes :
           SendText(connection, outcome)
    \/ SendReturn
    \/ /\ ws_call = None
       /\ \E user_id \in UserIds, subscription \in Topics :
              SubscribeUser(user_id, subscription)
    \/ /\ ws_call = None
       /\ \E user_id \in UserIds, subscription \in Topics :
              UnsubscribeUser(user_id, subscription)
SpecWS == InitWS /\ [][NextWS]_vars

\* the streaming processor as loaded, and a connection manager on which
\* user 1 has two sockets and user 2 none; the calls run one at a time
InitStream ==
    /\ StreamIdle
    /\ active_connections = DictPut(EmptyDict, 1, {"ws1", "ws2"})
    /\ user_subscriptions = EmptyDict
    /\ ws_conn = [websocket \in WebSockets |->
                     IF websocket \in {"ws1", "ws2"}
                     THEN Handler("connected", 1) ELSE Handler("new", 0)]
    /\ ws_call = None
    /\ ws_last = None
    /\ EngineIdle
    /\ DeepfakeIdle
    /\ ManagerIdle
    /\ ThirdPartyIdle
    /\ CacheIdle
    /\ WebIdle
    /\ AuthIdle
NextStream ==
    \/ /\ UNCHANGED <<stream_response, streamCallVars>>
       /\ \E content_type \in StreamContentTypes :
              RegisterProcessor(content_type)
    \/ /\ UNCHANGED <<stream_response, streamCallVars>>
       /\ \E stream_id \in StreamIds, content_type \in StreamContentTypes,
             user_id \in UserIds, failed \in SUBSET WebSockets :
              StartStreamProcessing(stream_id, content_type, user_id, failed)
    \/ /\ UNCHANGED <<stream_response, streamCallVars>>
       /\ \E stream_id \in StreamIds, outcome \in ProcessorOutcomes,
             failed \in SUBSET WebSockets :
              ProcessStreamChunk(stream_id, outcome, failed)
    \/ /\ UNCHANGED <<stream_response, streamCallVars>>
       /\ \E stream_id \in StreamIds, failed \in SUBSET WebSockets :
              StopStreamProcessing(stream_id, failed)
SpecStream == InitStream /\ [][NextStream]_vars

\* an empty content table; the requests run one at a time
InitWeb ==
    /\ WebIdle
    /\ AuthIdle
    /\ EngineIdle
    /\ DeepfakeIdle
    /\ ManagerIdle
    /\ ThirdPartyIdle
    /\ CacheIdle
    /\ WSIdle
    /\ StreamIdle
WebExceptions ==
    {NoneStr, "S3Error", "OperationalError", "ConnectionError", "HTTPError"}
NextWeb ==
    \/ \E user_id \in UserIds, content_type \in UploadTypes,
          exception \in WebExceptions :
           UploadContent(user_id, content_type, exception)
    \/ \E user_id \in UserIds, content_type \in UploadTypes,
          exception \in WebExceptions :
           UploadContentFromUrl(user_id, content_type, exception)
    \/ \E user_id \in UserIds, content_id \in ContentIds,
          exception \in WebExceptions :
           VerifyContentRoute(user_id, content_id, exception)
    \/ \E user_id \in UserIds, content_id \in ContentIds,
          exception \in WebExceptions :
           DetectDeepfakeRoute(user_id, content_id, exception)
    \/ \E user_id \in UserIds, content_id \in ContentIds,
          storage \in {"deleted", "S3Error", "ConnectionError"} :
           DeleteContent(user_id, content_id, storage)
    \/ \E route \in {"get_content", "get_content_analysis"},
          user_id \in UserIds, content_id \in ContentIds :
           ReadContent(route, user_id, content_id)
    \/ \E user_id \in UserIds : ListContent(user_id)
SpecWeb == InitWeb /\ [][NextWeb]_vars

\* an empty users table and no request in progress
InitAuth ==
    /\ AuthIdle
    /\ EngineIdle
    /\ DeepfakeIdle
    /\ ManagerIdle
    /\ ThirdPartyIdle
    /\ CacheIdle
    /\ WSIdle
    /\ StreamIdle
    /\ WebIdle
NextAuth ==
    \/ \E request \in Requests, email \in Emails, username \in Usernames :
           RegisterQuery(request, email, username)
    \/ \E request \in Requests : RegisterCommit(request)
SpecAuth == InitAuth /\ [][NextAuth]_vars

\* the streaming routes over the processor as loaded; the requests run one
\* at a time
NextStreamApi ==
    \/ \E stream_id \in StreamIds, content_type \in StreamContentTypes,
          user_id \in UserIds, failed \in SUBSET WebSockets :
           StartStreaming(stream_id, content_type, user_id, failed)
    \/ \E stream_id \in StreamIds, outcome \in ProcessorOutcomes,
          failed \in SUBSET WebSockets :
           ProcessStreamChunkRoute(stream_id, outcome, failed)
    \/ \E stream_id \in StreamIds, failed \in SUBSET WebSockets :
           StopStreaming(stream_id, failed)
    \/ \E stream_id \in StreamIds : GetStreamStatus(stream_id)
SpecStreamApi == InitStream /\ [][NextStreamApi]_vars

\* the connection manager with its broadcast
NextWSBroadcast ==
    \/ NextWS
    \/ \E order \in KeyOrders(DOMAIN active_connections),
          failed \in SUBSET WebSockets :
           Broadcast(order, failed)
SpecWSBroadcast == InitWS /\ [][NextWSBroadcast]_vars

\* the connection manager with its topics, of which the endpoints use more
\* than one (api.py lines 33, 113); the calls run one at a time
AllTopics == Topics \cup {"dashboard_updates"}
NextWSTopics ==
    \/ \E websocket \in WebSockets, user_id \in UserIds,
          accept \in AcceptOutcomes :
           Connect(websocket, user_id, accept)
    \/ \E websocket \in WebSockets : Disconnect(websocket)
    \/ /\ ws_call = None
       /\ \E user_id \in UserIds, subscription \in AllTopics :
              SubscribeUser(user_id, subscription)
    \/ /\ ws_call = None
       /\ \E user_id \in UserIds, subscription \in AllTopics :
              UnsubscribeUser(user_id, subscription)
    \/ \E subscription \in AllTopics, failed \in SUBSET WebSockets :
           SendToSubscribers(subscription, failed)
SpecWSTopics == InitWS /\ [][NextWSTopics]_vars

\* the connection manager with connect and disconnect running while a
\* send_personal_message is suspended
NextWSInterleaved ==
    \/ \E websocket \in WebSockets, user_id \in UserIds,
          accept \in AcceptOutcomes :
           Connect(websocket, user_id, accept)
    \/ \E websocket \in WebSockets : Disconnect(websocket)
    \/ \E user_id \in UserIds, connection \in WebSockets \cup {NoneStr},
          outcome \in SendOutcomes :
           SendStart(user_id, connection, outcome)
    \/ \E connection \in WebSockets \cup {NoneStr}, outcome \in SendOutcomes :
           SendResume(connection, outcome)
SpecWSInterleaved == InitWS /\ [][NextWSInterleaved]_vars

\* the streaming processor with calls of process_stream_chunk and
\* stop_stream_processing suspended at their awaits while others run.  The
\* streams are started, and processors registered, before the first of these
\* calls; the sockets are healthy, so that the sends leave the connection
\* registry alone.
NextStreamInterleaved ==
    \/ /\ \A call \in Calls : stream_calls[call].pc = "idle"
       /\ UNCHANGED <<stream_response, streamCallVars>>
       /\ \E content_type \in StreamContentTypes :
              RegisterProcessor(content_type)
    \/ /\ \A call \in Calls : stream_calls[call].pc = "idle"
       /\ UNCHANGED <<stream_response, streamCallVars>>
       /\ \E stream_id \in StreamIds, content_type \in StreamContentTypes,
             user_id \in UserIds :
              StartStreamProcessing(stream_id, content_type, user_id, {})
    \/ \E call \in Calls, stream_id \in StreamIds,
          outcome \in ProcessorOutcomes :
           ChunkBegin(call, stream_id, outcome)
    \/ \E call \in Calls : ChunkResume(call)
    \/ \E call \in Calls : ChunkReturn(call)
    \/ \E call \in Calls, stream_id \in StreamIds : StopBegin(call, stream_id)
    \/ \E call \in Calls : StopResume(call)
SpecStreamInterleaved == InitStream /\ [][NextStreamInterleaved]_vars

(***************************************************************************)
(* Claims                                                                  *)
(***************************************************************************)

\* C1: for every content type and content, the verification_score of the
\* result of verify_content lies in [0,1]; image, video and unsupported
\* types return the fixed values 0.75, 0.7 and 0.1.
C1_ScoreInUnitInterval ==
    vres # None =>
        /\ vres.verification_score >= 0
        /\ vres.verification_score <= ScoreOne
        /\ vres.content_type \in {"image/jpeg", "image/png"}
               => vres.verification_score = Hundredths(75)
        /\ vres.content_type = "video/mp4"
               => vres.verification_score = Hundredths(70)
        /\ vres.content_type \notin supported_content_types
               => vres.verification_score = Hundredths(10)
\* a text whose every pattern matches five times or more: 0.85 - 1.1 is
\* below zero before the clamp
C1_Witness ==
    /\ vres # None
    /\ vreq.content_type = "text/plain"
    /\ \A i \in 1..4 : vreq.content.matches[i] >= 5
    /\ vres.verification_score = 0

\* C2: the label the claim gives to a score, by its five intervals
C2_Labels ==
    {"Highly Authentic", "Likely Authentic", "Uncertain",
     "Likely Misinformation", "Highly Suspect"}
C2_InInterval(label, score) ==
    CASE label = "Highly Authentic" -> score >= Hundredths(90)
      [] label = "Likely Authentic" ->
             Hundredths(70) <= score /\ score < Hundredths(90)
      [] label = "Uncertain" ->
             Hundredths(50) <= score /\ score < Hundredths(70)
      [] label = "Likely Misinformation" ->
             Hundredths(30) <= score /\ score < Hundredths(50)
      [] label = "Highly Suspect" -> score < Hundredths(30)
C2_Rank(label) ==
    CASE label = "Highly Authentic" -> 4
      [] label = "Likely Authentic" -> 3
      [] label = "Uncertain" -> 2
      [] label = "Likely Misinformation" -> 1
      [] label = "Highly Suspect" -> 0
\* every score in [0,1] gets exactly one of the five labels, the one whose
\* interval holds it, and a higher score never gets a lower label
C2_TotalAndMonotone ==
    /\ \A score \in 0..ScoreOne :
           /\ generate_assessment(score) \in C2_Labels
           /\ \A label \in C2_Labels :
                  C2_InInterval(label, score) <=> label = generate_assessment(score)
    /\ \A score \in 0..(ScoreOne - 1) :
           C2_Rank(generate_assessment(score))
               <= C2_Rank(generate_assessment(score + 1))
\* C2: verify_content sets 'assessment' from the final verification_score
\* by the five fixed-threshold labels; every score in [0,1] maps to exactly
\* one label and the mapping is monotone in the score.
C2_AssessmentByThreshold ==
    /\ vres # None =>
           C2_InInterval(vres.assessment, vres.verification_score)
    /\ C2_TotalAndMonotone
\* a text that lands exactly on the 0.5 threshold (0.85 - 0.35) and a
\* result is labelled from it
C2_Witness ==
    /\ vres # None
    /\ vres.verification_score = Hundredths(50)
    /\ vres.assessment = "Uncertain"

\* C3: the deepfake_probability of detect_deepfake lies in [0,1]; for image
\* and video it never exceeds 0.95; for any other content type it is 0.1
\* with confidence 0.2 and the single indicator 'unsupported_format'.
C3_ProbabilityInUnitInterval ==
    dres # None =>
        /\ dres.deepfake_probability >= 0
        /\ dres.deepfake_probability <= ScoreOne
        /\ dres.content_type \in {"image", "video"}
               => dres.deepfake_probability <= Hundredths(95)
        /\ dres.content_type \notin {"image", "video"}
               => /\ dres.deepfake_probability = Hundredths(10)
                  /\ dres.confidence = Hundredths(20)
                  /\ Len(dres.indicators) = 1
                  /\ dres.indicators[1].type = "unsupported_format"
\* an image whose indicators sum above 0.95 (AI tool 0.8, no timestamps
\* 0.3, high resolution 0.3) is capped
C3_Witness ==
    /\ dres # None
    /\ dres.content_type = "image"
    /\ Len(dres.indicators) = 3
    /\ dres.deepfake_probability = Hundredths(95)

\* C4: get_model(type, version) returns the model most recently registered
\* under (type, version), None if the pair was never registered;
\* get_model(type, None) returns the model registered under the type's
\* current active version, None when the type is unregistered or has no
\* active version.
C4_GetModelReturnsRegistered ==
    \A t \in ModelTypes :
        /\ \A v \in Versions : get_model(t, v) = registered[t][v]
        /\ get_model(t, NoneStr) =
               (IF activated[t] = NoneStr THEN NoneStr
                ELSE registered[t][activated[t]])
        /\ (\A v \in Versions : registered[t][v] = NoneStr)
               => get_model(t, NoneStr) = NoneStr
\* the text type holds two different models, the active one is the second
\* version, and the image type is registered without an active version
C4_Witness ==
    /\ registered["text_analysis"]["1.0.0"] = "image_model"
    /\ registered["text_analysis"]["2.0.0"] = "text_model"
    /\ activated["text_analysis"] = "2.0.0"
    /\ get_model("text_analysis", NoneStr) = "text_model"
    /\ registered["image_analysis"]["1.0.0"] = "image_model"
    /\ activated["image_analysis"] = NoneStr
    /\ get_model("image_analysis", NoneStr) = NoneStr

\* C5: the performance log of each model type holds at most 1000 records,
\* and once more than 1000 have been appended it holds exactly the 1000
\* most recently appended ones, in their append order.
C5_LogKeepsLast1000 ==
    \A t \in ModelTypes :
        LET log == IF t \in DOMAIN model_performance
                   THEN model_performance[t] ELSE <<>>
            n == Len(appended[t])
        IN  /\ Len(log) <= LogCap
            /\ n <= LogCap => log = appended[t]
            /\ n > LogCap =>
                   /\ Len(log) = LogCap
                   /\ \A i \in 1..LogCap : log[i] = appended[t][n - LogCap + i]
\* 1001 records were appended to the text log and it holds 1000, the
\* oldest one gone
C5_Witness ==
    /\ Len(appended["text_analysis"]) = LogCap + 1
    /\ Len(model_performance["text_analysis"]) = LogCap
    /\ model_performance["text_analysis"][1].timestamp = 2

\* C6: for every enabled service whose HTTP call raises, verify_text_claim
\* reports the hardcoded fabricated response with verified = True;
\* verify_text_claim never raises (it returns an entry for every enabled
\* service) and never reports an 'error' / verified = False entry for a
\* known enabled service.
C6_FailureYieldsFabricated ==
    tp_result # None =>
        /\ DOMAIN tp_result.results = tp_enabled
        /\ \A service_name \in tp_enabled :
               /\ tp_result.results[service_name].kind # "error"
               /\ tp_http[service_name].kind # "ok" =>
                      /\ tp_result.results[service_name] = Fabricated(service_name)
                      /\ tp_result.results[service_name].verified
\* all three services enabled, each HTTP call failing in a different way
C6_Witness ==
    /\ tp_result # None
    /\ tp_enabled = Services
    /\ tp_http["snopes"].kind = "ConnectionError"
    /\ tp_http["factcheck_org"].kind = "Timeout"
    /\ tp_http["politifact"].kind = "HTTPError"
    /\ \A service_name \in Services : tp_result.results[service_name].verified


\* what each way into the cache reads back now
CacheReadBack(slot) ==
    CASE slot = "cache" -> cache_get(KeyOf(slot))
      [] slot = "user_session" -> get_user_session(CacheId)
      [] slot = "content_metadata" -> get_content_metadata(CacheId)

\* a value holding neither a tuple nor a dictionary key that is not a string
RECURSIVE JsonFaithful(_)
JsonFaithful(value) ==
    CASE value.t \in {"int", "str", "NoneType"} -> TRUE
      [] value.t = "list" ->
             \A i \in 1..Len(value.items) : JsonFaithful(value.items[i])
      [] value.t = "dict" -> value.key.t = "str" /\ JsonFaithful(value.val)
      [] OTHER -> FALSE

\* C7 as stated: whenever the last operation on a key was a cache_set that
\* returned True and the key has not expired since, cache_get returns a
\* value equal to the one set; whenever the last operation was a
\* cache_delete or the key expired, cache_get returns None; this holds of
\* the session and the metadata helpers of one id independently.
C7_RoundTripAsStated ==
    \A slot \in CacheSlots :
        /\ cache_hist[slot].state = "set" =>
               CacheReadBack(slot) = cache_hist[slot].value
        /\ cache_hist[slot].state \in {"deleted", "expired"} =>
               CacheReadBack(slot) = PyNone

\* C7 amended: while Redis is reachable, a key whose last operation was a
\* cache_set that returned True and that has not expired reads back as the
\* JSON decoding of the JSON encoding of the value, which is the value itself
\* when it holds no tuple and no dictionary key that is not a string; a key
\* that expired, or whose last operation was a cache_delete run while Redis
\* was reachable, reads back as None; the session and the metadata helpers of
\* one id read back what was set through each of them.
C7_RoundTripWhenReachable ==
    \A slot \in CacheSlots :
        /\ (cache_hist[slot].state = "set" /\ redis_up) =>
               /\ CacheReadBack(slot) =
                      json_loads(json_dumps(cache_hist[slot].value))
               /\ JsonFaithful(cache_hist[slot].value) =>
                      CacheReadBack(slot) = cache_hist[slot].value
        /\ (\/ cache_hist[slot].state = "expired"
            \/ cache_hist[slot].state = "deleted" /\ cache_hist[slot].reached) =>
               CacheReadBack(slot) = PyNone
C7_Witness ==
    /\ redis_up
    /\ cache_hist["user_session"].state = "set"
    /\ cache_hist["content_metadata"].state = "set"
    /\ cache_hist["user_session"].value # cache_hist["content_metadata"].value
    /\ JsonFaithful(cache_hist["user_session"].value)
    /\ get_user_session(CacheId) = cache_hist["user_session"].value
    /\ cache_hist["cache"].state = "expired"
    /\ cache_get(KeyOf("cache")) = PyNone

\* C8: a send_personal_message(message, u) that has returned attempted a send
\* on exactly the sockets registered for u when it was called, did not
\* raise, removed exactly the sockets whose send raised (and u's entry when
\* none remained), and left the entries of the other users as they were.
C8_SendPersonalMessage ==
    (ws_last # None /\ ws_last.op = "send_personal_message") =>
        LET u == ws_last.user_id
            registered_at_call == SetAt(ws_last.before, u)
        IN  /\ ~ws_last.raised
            /\ ws_last.attempted = registered_at_call
            /\ ws_last.failed \subseteq ws_last.attempted
            /\ SetAt(ws_last.after, u) = registered_at_call \ ws_last.failed
            /\ u \in DOMAIN ws_last.after <=>
                   registered_at_call \ ws_last.failed # {}
            /\ \A other \in UserIds \ {u} :
                   /\ other \in DOMAIN ws_last.after <=>
                          other \in DOMAIN ws_last.before
                   /\ SetAt(ws_last.after, other) = SetAt(ws_last.before, other)
\* a call to a user with two sockets, one of which failed, and another user
\* connected
C8_Witness ==
    /\ ws_last # None
    /\ ws_last.op = "send_personal_message"
    /\ Cardinality(SetAt(ws_last.before, ws_last.user_id)) = 2
    /\ Cardinality(ws_last.failed) = 1
    /\ Cardinality(SetAt(ws_last.after, ws_last.user_id)) = 1
    /\ \E other \in UserIds \ {ws_last.user_id} : other \in DOMAIN ws_last.after

\* C9: no user id maps to an empty connection set; a connect(ws, u) that
\* returned left ws in active_connections[u]; a disconnect(ws, u) left ws in
\* no connection set, and u without an entry when ws was its last socket.
C9_RegistryMembership ==
    /\ \A u \in DOMAIN active_connections : active_connections[u] # {}
    /\ (ws_last # None /\ ws_last.op = "connect" /\ ~ws_last.raised) =>
           /\ ws_last.user_id \in DOMAIN ws_last.after
           /\ ws_last.websocket \in ws_last.after[ws_last.user_id]
    /\ (ws_last # None /\ ws_last.op = "disconnect") =>
           /\ \A u \in UserIds : ws_last.websocket \notin SetAt(ws_last.after, u)
           /\ SetAt(ws_last.before, ws_last.user_id) \subseteq {ws_last.websocket} =>
                  ws_last.user_id \notin DOMAIN ws_last.after
\* the disconnect of a user's last socket, after a send that dropped the
\* other one
C9_Witness ==
    /\ ws_last # None
    /\ ws_last.op = "disconnect"
    /\ SetAt(ws_last.before, ws_last.user_id) = {ws_last.websocket}
    /\ ws_last.user_id \notin DOMAIN active_connections
    /\ \E websocket \in WebSockets :
           /\ websocket # ws_last.websocket
           /\ ws_conn[websocket] = Handler("connected", ws_last.user_id)

\* C10: a start_stream_processing with a registered content type returned
\* True and left an entry with status 'active' and processed_chunks 0; a
\* stop_stream_processing on an existing stream returned True and removed
\* the entry; a process_stream_chunk or stop_stream_processing on a stream id
\* without an entry returned False and changed no stream; get_stream_status
\* is None for every stream id without an entry.
C10_StreamLifecycle ==
    /\ \A stream_id \in StreamIds :
           stream_id \notin DOMAIN active_streams =>
               get_stream_status(stream_id) = None
    /\ stream_last # None =>
           LET id == stream_last.stream_id IN
           /\ (stream_last.op = "start_stream_processing" /\ stream_last.registered) =>
                  /\ stream_last.returned
                  /\ id \in DOMAIN stream_last.after
                  /\ stream_last.after[id].status = "active"
                  /\ stream_last.after[id].processed_chunks = 0
           /\ (stream_last.op = "stop_stream_processing"
                   /\ id \in DOMAIN stream_last.before) =>
                  /\ stream_last.returned
                  /\ id \notin DOMAIN stream_last.after
           /\ (stream_last.op \in {"stop_stream_processing", "process_stream_chunk"}
                   /\ id \notin DOMAIN stream_last.before) =>
                  /\ ~stream_last.returned
                  /\ stream_last.after = stream_last.before
\* a stream that was started, processed a chunk and has just been stopped
C10_Witness ==
    /\ stream_last # None
    /\ stream_last.op = "stop_stream_processing"
    /\ stream_last.returned
    /\ stream_last.stream_id \in DOMAIN stream_last.before
    /\ stream_last.before[stream_last.stream_id].processed_chunks > 0
    /\ stream_last.stream_id \notin DOMAIN active_streams
    /\ get_stream_status(stream_last.stream_id) = None

\* C11: a process_stream_chunk that returned True increased the
\* processed_chunks of its stream by exactly 1 and left the counter of every
\* other stream as it was; one that returned False because the processor
\* raised left processed_chunks as it was; the processed_chunks of every
\* stream equals the number of processor runs that completed without raising
\* since the stream was started.
C11_ProcessedChunksCount ==
    /\ \A stream_id \in DOMAIN active_streams :
           active_streams[stream_id].processed_chunks = completions[stream_id]
    /\ (stream_last # None /\ stream_last.op = "process_stream_chunk"
            /\ stream_last.stream_id \in DOMAIN stream_last.before) =>
           LET id == stream_last.stream_id IN
           /\ DOMAIN stream_last.after = DOMAIN stream_last.before
           /\ stream_last.returned =>
                  stream_last.after[id].processed_chunks =
                      stream_last.before[id].processed_chunks + 1
           /\ stream_last.outcome = "Exception" =>
                  /\ ~stream_last.returned
                  /\ stream_last.after[id].processed_chunks =
                         stream_last.before[id].processed_chunks
           /\ \A other \in DOMAIN stream_last.before \ {id} :
                  stream_last.after[other] = stream_last.before[other]
\* the second chunk of a stream counted, after one whose processor raised,
\* while another stream is active
C11_Witness ==
    /\ stream_last # None
    /\ stream_last.op = "process_stream_chunk"
    /\ stream_last.returned
    /\ stream_last.stream_id \in DOMAIN active_streams
    /\ active_streams[stream_last.stream_id].processed_chunks = 2
    /\ completions[stream_last.stream_id] = 2
    /\ \E other \in DOMAIN active_streams : other # stream_last.stream_id

\* the parts of C12 about creation, deletion and the other operations: an
\* upload that succeeded left a row with status 'uploaded' and null analysis
\* fields; the verification fields of a row are null until a POST /verify
\* wrote them and its deepfake fields until a POST /deepfake-detect did; a
\* request that answered with an error changed no row; an id whose row was
\* deleted has no row again, and a request for it changes nothing.
C12_CreatedMutatedDeleted ==
    /\ \A id \in DOMAIN content_table :
           /\ id < next_content_id
           /\ content_table[id].status = "uploaded"
           /\ content_table[id].verification_written = "never" <=>
                  /\ content_table[id].verification_score = Absent
                  /\ content_table[id].verification_result = None
           /\ content_table[id].deepfake_written = "never" <=>
                  /\ content_table[id].deepfake_probability = Absent
                  /\ content_table[id].deepfake_result = None
    /\ api_last # None =>
           /\ api_last.status_code = 201 =>
                  /\ api_last.content_id \in DOMAIN content_table
                  /\ content_table[api_last.content_id].verification_written = "never"
                  /\ content_table[api_last.content_id].deepfake_written = "never"
           /\ api_last.status_code \notin {200, 201, 204} => ~api_last.changed
           /\ ~api_last.found => ~api_last.changed \/ api_last.status_code = 201
           /\ (api_last.route = "verify_content" /\ api_last.status_code = 200) =>
                  content_table[api_last.content_id].verification_score =
                      simulated_verification(
                          content_table[api_last.content_id].content_type
                      ).verification_score

C13_DeleteContent ==
    (api_last # None /\ api_last.route = "delete_content") =>
        /\ api_last.owned =>
               /\ api_last.status_code = 204
               /\ api_last.content_id \notin DOMAIN content_table
        /\ ~api_last.found =>
               /\ api_last.status_code = 404
               /\ ~api_last.changed
\* the row of an owner deleted although delete_file raised
C13_Witness ==
    /\ api_last # None
    /\ api_last.route = "delete_content"
    /\ api_last.owned
    /\ api_last.raised = "ConnectionError"
    /\ api_last.status_code = 204
    /\ api_last.content_id \notin DOMAIN content_table
    /\ content_table # EmptyDict

\* C14: under every interleaving of register requests no two User rows share
\* an email or a username, and a request whose query found a user with the
\* submitted email was answered 400 "Email already registered" in a step
\* that added no user.
C14_UniqueUsers ==
    /\ [](\A id, other \in DOMAIN users :
              id # other =>
                  /\ users[id].email # users[other].email
                  /\ users[id].username # users[other].username)
    /\ [][\A request \in Requests :
              (/\ register_calls'[request] # register_calls[request]
               /\ register_calls'[request].found)
              => /\ register_calls'[request].status_code = 400
                 /\ register_calls'[request].detail = "Email already registered"
                 /\ users' = users]_vars
\* two requests for one email both passed the query; one was committed and
\* the database refused the other; a third request found the email
C14_Witness ==
    \E first, second, third \in Requests :
        /\ register_calls[first].status_code = 201
        /\ register_calls[second].status_code = 500
        /\ register_calls[second].user.email = register_calls[first].user.email
        /\ register_calls[third].found
        /\ register_calls[third].status_code = 400
        /\ Len(users) = 2

\* an exception was raised inside the try block of the last route handler:
\* delete_content has only the storage delete in its try block, and
\* delete_file itself catches S3Error
C15_RaisedInTry ==
    /\ api_last # None
    /\ IF api_last.route = "delete_content"
       THEN api_last.raised = "ConnectionError"
       ELSE api_last.raised # NoneStr
C16_ClientErrorStatus ==
    (stream_response # None /\ ~stream_response.success) =>
        /\ stream_response.status_code # 500
        /\ IF stream_response.route = "get_stream_status"
           THEN /\ stream_response.status_code = 404
                /\ stream_response.detail = <<"Stream not found">>
           ELSE stream_response.status_code = 400

\* C17: for a video whose metadata holds a bitrate above 10,000,000 the
\* deepfake probability is lower than for the same metadata without the
\* bitrate, unless it is at the lower clamp 0.05 (the comparison allows the
\* two float computations any rounding).
C17_HighBitrateReduces ==
    (/\ dreq # None
     /\ dres # None
     /\ dreq.content_type = "video"
     /\ dreq.metadata.bitrate > 10000000)
    => \E err \in FloatErr :
           LET without ==
                   detect_deepfake([dreq EXCEPT !.metadata.bitrate = Absent],
                                   err)
           IN  \/ dres.deepfake_probability < without.deepfake_probability
               \/ dres.deepfake_probability = Hundredths(5)

C19_TrackedCalls ==
    manager_last # None =>
        LET t == manager_last.model_type
            v == manager_last.model_version
            unresolved ==
                \/ t \notin DOMAIN models
                \/ v # NoneStr /\ v \notin DOMAIN models[t]
                \/ v = NoneStr /\ t \notin DOMAIN active_models
            record ==
                PerformanceRecord(
                    IF v # NoneStr THEN v ELSE active_models[t],
                    IF manager_last.op = "predict"
                    THEN "prediction" ELSE "training",
                    clock)
        IN  IF unresolved
            THEN /\ manager_last.error
                 /\ appended = manager_last.before
            ELSE /\ ~manager_last.error
                 /\ appended =
                        [manager_last.before EXCEPT ![t] = Append(@, record)]
                 /\ model_performance[t][Len(model_performance[t])] = record

\* C20: a broadcast attempted a send on every socket of every connected user
\* and returned without raising; afterwards no socket whose send failed is
\* in any user's set, no user has an empty set, and every socket whose send
\* succeeded is still in the set of its user.
C20_Broadcast ==
    (ws_last # None /\ ws_last.op = "broadcast") =>
        /\ ~ws_last.raised
        /\ ws_last.attempted =
               UNION {ws_last.before[uid] : uid \in DOMAIN ws_last.before}
        /\ \A uid \in DOMAIN ws_last.after :
               /\ ws_last.after[uid] \cap ws_last.failed = {}
               /\ ws_last.after[uid] # {}
        /\ \A uid \in DOMAIN ws_last.before :
               ws_last.before[uid] \ ws_last.failed
                   \subseteq SetAt(ws_last.after, uid)

\* C21: send_to_subscribers attempted a send on exactly the sockets of the
\* users whose subscription set held the topic; subscribe_user added the
\* topic to the user's set; unsubscribe_user removed it, deleted the entry of
\* a user left without a topic, and changed nothing when the user was not
\* subscribed to the topic.
C21_Subscriptions ==
    ws_last # None =>
        LET user == ws_last.user_id
            topic == ws_last.subscription
            subs == ws_last.subscriptions
            after == ws_last.subscriptions_after
        IN  /\ ws_last.op = "send_to_subscribers" =>
                   /\ ws_last.attempted =
                          UNION {SetAt(ws_last.before, uid) :
                                    uid \in {u \in UserIds :
                                                topic \in SetAt(subs, u)}}
                   /\ after = subs
            /\ ws_last.op = "subscribe_user" =>
                   /\ DOMAIN after = DOMAIN subs \cup {user}
                   /\ \A uid \in DOMAIN after :
                          after[uid] = IF uid = user
                                       THEN SetAt(subs, uid) \cup {topic}
                                       ELSE subs[uid]
            /\ ws_last.op = "unsubscribe_user" =>
                   /\ \A uid \in UserIds :
                          SetAt(after, uid) = IF uid = user
                                              THEN SetAt(subs, uid) \ {topic}
                                              ELSE SetAt(subs, uid)
                   /\ \A uid \in DOMAIN after : after[uid] # {}
                   /\ topic \notin SetAt(subs, user) => after = subs
\* a send to a topic that one connected user holds and another connected
\* user does not
C21_Witness ==
    /\ ws_last # None
    /\ ws_last.op = "send_to_subscribers"
    /\ ws_last.attempted # {}
    /\ \E uid \in DOMAIN ws_last.before :
           /\ ws_last.before[uid] \cap ws_last.attempted = {}
           /\ uid \in DOMAIN ws_last.subscriptions

\* C25: a disconnect that left the user with a registered socket left the
\* user's subscriptions as they were (every step that changes
\* user_subscriptions records itself in ws_last, so after a disconnect
\* user_subscriptions is what the disconnect left).
C25_SubscriptionsPersist ==
    (/\ ws_last # None
     /\ ws_last.op = "disconnect"
     /\ SetAt(ws_last.after, ws_last.user_id) # {})
    => SetAt(user_subscriptions, ws_last.user_id)
           = SetAt(ws_last.subscriptions, ws_last.user_id)

\* C22: a start_stream_processing with a content type that has no processor
\* returned False, sent an error message to the user and left active_streams
\* as it was, without an entry for a stream id that had none.
C22_StartWithoutProcessor ==
    (/\ stream_last # None
     /\ stream_last.op = "start_stream_processing"
     /\ ~stream_last.registered)
    => /\ ~stream_last.returned
       /\ stream_last.sent[1] = "error"
       /\ stream_last.sent[2] \in UserIds
       /\ stream_last.after = stream_last.before
       /\ active_streams = stream_last.before
\* a refused start for a fresh stream id while another stream is active, with
\* a registry that lost a socket in the send of the error
C22_Witness ==
    /\ stream_last # None
    /\ stream_last.op = "start_stream_processing"
    /\ ~stream_last.registered
    /\ stream_last.stream_id \notin DOMAIN active_streams
    /\ active_streams # EmptyDict
    /\ SetAt(active_connections, 1) = {"ws1"}

\* C23: every entry of active_models names a version that is registered in
\* models for its type, so get_active_model returns a model for every type
\* that has an active version.
C23_ActiveIsRegistered ==
    \A t \in DOMAIN active_models :
        /\ t \in DOMAIN models
        /\ active_models[t] \in DOMAIN models[t]
        /\ get_active_model(t) = models[t][active_models[t]]
        /\ get_active_model(t) \in ModelObjs
\* both types have an active version, one the first and one the second
\* registered, and the active model of a type was registered again
C23_Witness ==
    /\ DOMAIN active_models = ModelTypes
    /\ active_models["text_analysis"] = "2.0.0"
    /\ active_models["image_analysis"] = "1.0.0"
    /\ get_active_model("image_analysis") = "text_model"

\* C29 as stated: for every type with a log, total_predictions and
\* total_trainings equal the number of predict and train_model calls that
\* resolved a model of the type since the manager was created.
C29_TotalsCountAllCalls ==
    \A t \in DOMAIN model_performance :
        /\ get_performance_stats(t).total_predictions
               = CountType(appended[t], "prediction")
        /\ get_performance_stats(t).total_trainings
               = CountType(appended[t], "training")
\* C29: for every type with a log, total_predictions and total_trainings
\* equal the number of predict and train_model calls among the last 1000
\* calls that resolved a model of the type; they equal the number of all such
\* calls as long as there were at most 1000.
C29_TotalsCountKeptCalls ==
    \A t \in DOMAIN model_performance :
        LET stats == get_performance_stats(t)
            kept == LastN(appended[t], LogCap)
        IN  /\ stats.total_predictions = CountType(kept, "prediction")
            /\ stats.total_trainings = CountType(kept, "training")
            /\ Len(appended[t]) <= LogCap =>
                   /\ stats.total_predictions
                          = CountType(appended[t], "prediction")
                   /\ stats.total_trainings
                          = CountType(appended[t], "training")
\* more than 1000 calls resolved a text model, a train_model among them, and
\* total_predictions is below the number of predict calls
C29_Witness ==
    /\ Len(appended["text_analysis"]) > LogCap
    /\ get_performance_stats("text_analysis").total_trainings > 0
    /\ get_performance_stats("text_analysis").total_predictions
           < CountType(appended["text_analysis"], "prediction")

\* C28: a request of one user returns no Content row of another user and
\* leaves every row of another user as it was; a request that addresses the
\* content id of another user's row is answered 404 and changes no row.
C28_OwnershipIsolation ==
    /\ [](api_last # None =>
              /\ \A row \in api_last.returned : row[2] = api_last.user_id
              /\ (/\ api_last.found
                  /\ api_last.owner # api_last.user_id
                  /\ api_last.route \in
                         {"get_content", "get_content_analysis",
                          "delete_content", "verify_content",
                          "detect_deepfake"})
                 => /\ api_last.status_code = 404
                    /\ ~api_last.changed)
    /\ [][api_last' # None =>
              \A content_id \in DOMAIN content_table :
                  content_table[content_id].user_id # api_last'.user_id =>
                      /\ content_id \in DOMAIN content_table'
                      /\ content_table'[content_id] = content_table[content_id]
         ]_vars
\* a list request of a user who owns a row, answered with that row only,
\* while the other user owns a verified row
C28_Witness ==
    /\ api_last # None
    /\ api_last.route = "list_content"
    /\ Cardinality(api_last.returned) = 1
    /\ \E content_id \in DOMAIN content_table :
           /\ content_table[content_id].user_id # api_last.user_id
           /\ content_table[content_id].verification_written # "never"

\* C24: a send_personal_message during which connect and disconnect calls
\* for its user ran returned without raising, attempted a send on every
\* socket that was registered for the user when it started and when it
\* returned, and left for the user exactly the sockets that are connected
\* and on which no send failed.
C24_InterleavedSend ==
    (ws_last # None /\ ws_last.op = "send_personal_message") =>
        LET u == ws_last.user_id IN
        /\ ~ws_last.raised
        /\ SetAt(ws_last.before, u) \cap SetAt(ws_last.after, u)
               \subseteq ws_last.attempted
        /\ SetAt(ws_last.after, u) \cap ws_last.failed = {}
        /\ \A websocket \in WebSockets :
               (/\ ws_conn[websocket] = Handler("connected", u)
                /\ websocket \notin ws_last.failed)
               => websocket \in SetAt(ws_last.after, u)

\* C26: after a stop_stream_processing handed the 'stream_complete' update of
\* a stream to the websocket manager, no 'stream_chunk_processed' update of
\* that stream follows it, and once no process_stream_chunk call for the
\* stream is in flight, the processed_chunks it reported is the number of
\* calls that counted a chunk of the stream.
C26_CompleteIsLast ==
    \A i \in DOMAIN stream_updates :
        stream_updates[i][1] = "stream_complete" =>
            LET stream_id == stream_updates[i][2] IN
            /\ \A j \in DOMAIN stream_updates :
                   (j > i /\ stream_updates[j][2] = stream_id)
                   => stream_updates[j][1] # "stream_chunk_processed"
            /\ (\A call \in Calls :
                    in_flight(call) => stream_calls[call].stream_id # stream_id)
               => stream_updates[i][3] =
                      Cardinality({call \in Calls :
                                      /\ stream_calls[call].stream_id = stream_id
                                      /\ stream_calls[call].counted})

\* C27: two stop_stream_processing calls for one stream, the second begun
\* while the first was suspended in its send: when both are over, neither
\* raised, exactly one returned True, exactly one sent 'stream_complete' and
\* the stream is not in active_streams.
C27_InterleavedStops ==
    \A first \in Calls, second \in Calls :
        (/\ first \in stream_calls[second].during
         /\ stream_calls[first].pc = "returned"
         /\ stream_calls[second].pc = "returned")
        => LET a == stream_calls[first]
               b == stream_calls[second]
           IN  /\ ~a.raised /\ ~b.raised
               /\ a.returned # b.returned
               /\ (a.sent = "stream_complete") # (b.sent = "stream_complete")
               /\ a.stream_id \notin DOMAIN active_streams

=========================================================================
